---- MODULE Spec2Model ----
(***************************************************************************)
(* Lunch-job rostering engine of Decathlon_Automation_Core                 *)
(* (helpers/lunch_job_helpers.py): pattern assignment, override            *)
(* processing, pattern balancing, greedy fill and the repair validators,   *)
(* as a state machine whose actions are the pipeline stages.               *)
(*                                                                         *)
(* Staff ids are the positions of the staff in the staff table (the SQL    *)
(* orders it by group, then role), so "first in table order" is "smallest  *)
(* id".  A staff member added by the override "add" list is appended to    *)
(* the table and carries the largest id.                                   *)
(***************************************************************************)
EXTENDS Integers, Sequences, FiniteSets, TLC

VARIABLES pc, staff, role, group, pat, cfg, work, hard, pinned, rows, locked,
          jobs, week, configs, gmap, outPat, prev, dayIdx, prevRows

vars == <<pc, staff, role, group, pat, cfg, work, hard, pinned, rows, locked,
          jobs, week, configs, gmap, outPat, prev, dayIdx, prevRows>>

-----------------------------------------------------------------------------
(* Bounds of the model *)

\* staff in the roster of the balancing specification
NumStaff == 5
\* distinct groups in a generated roster
MaxGroups == 3
\* staff in the roster of the override-processing specification
OverrideStaff == 3

-----------------------------------------------------------------------------
(* Program constants *)

COUNSELOR_ROLE_ID == 1005
JUNIOR_COUNSELOR_ROLE_ID == 1006
STAFF_GAME_JOB_ID == 1100
ARTS_CRAFTS_JOB_ID == 1001
CARD_TRADING_JOB_ID == 1009
TIE_DYE_JOB_ID == 1045
COUNSELOR_ACTIVITY_JOB_ID == 1005
OBSTACLE_COURSE_JOB_ID == 1013
TALLYING_SCORES_JOB_ID == 1041
\* an ordinary duty of the catalog (any id outside the special lists)
GENERAL_JOB_ID == 1010
MIN_STAFF_PER_DAY == 2
GROUP_TOLERANCE == 2
ROLE_TOLERANCE == 3

Roles == {COUNSELOR_ROLE_ID, JUNIOR_COUNSELOR_ROLE_ID}
Patterns == {"A", "B"}
Days == <<"monday", "tuesday", "wednesday", "thursday">>
DaySet == {Days[i] : i \in 1..Len(Days)}

-----------------------------------------------------------------------------
(* Generic helpers *)

Abs(x) == IF x < 0 THEN -x ELSE x
Max2(a, b) == IF a > b THEN a ELSE b
Min2(a, b) == IF a < b THEN a ELSE b
MinOf(S) == CHOOSE x \in S : \A y \in S : x <= y
MaxOf(S) == CHOOSE x \in S : \A y \in S : x >= y
Range(s) == {s[i] : i \in 1..Len(s)}

RECURSIVE SeqOfSet(_)
SeqOfSet(S) == IF S = {} THEN <<>> ELSE <<MinOf(S)>> \o SeqOfSet(S \ {MinOf(S)})

RECURSIVE Concat(_)
Concat(ss) == IF ss = <<>> THEN <<>> ELSE Head(ss) \o Concat(Tail(ss))

\* the first k elements of a set of staff, in table order
FirstK(S, k) == {s \in S : Cardinality({t \in S : t < s}) < k}
\* the first k elements of a sequence
Take(s, k) == SubSeq(s, 1, Min2(k, Len(s)))

Flip(p) == IF p = "A" THEN "B" ELSE "A"
DayPattern(d) == IF d \in {"monday", "wednesday"} THEN "A" ELSE "B"

Row(d, s, j, k) == [day |-> d, staff |-> s, job |-> j, kind |-> k]

-----------------------------------------------------------------------------
(* Staff table queries *)

GroupIds(S) == {group[s] : s \in S}
Members(S, g) == {s \in S : group[s] = g}
OfRole(S, r) == {s \in S : role[s] = r}
Count(p, S, x) == Cardinality({s \in S : p[s] = x})
Skew(p, S) == Abs(Count(p, S, "A") - Count(p, S, "B"))

-----------------------------------------------------------------------------
(* Pattern Assigner: build_lunch_job_assignments, steps 2-4 *)

pattern_exception(g) ==
    LET c == Cardinality(OfRole(Members(staff, g), COUNSELOR_ROLE_ID))
        j == Cardinality(OfRole(Members(staff, g), JUNIOR_COUNSELOR_ROLE_ID))
    IN  (c = 1 /\ j = 2) \/ (c = 1 /\ j = 1)

\* assign_group_patterns: alternate over the sorted group ids from a random start
base_pattern(start, g) ==
    IF Cardinality({h \in GroupIds(staff) : h < g}) % 2 = 0 THEN start ELSE Flip(start)

\* counselors keep the base pattern, junior counselors get the flipped one
RolePattern(start, s) ==
    IF role[s] = COUNSELOR_ROLE_ID THEN base_pattern(start, group[s])
    ELSE Flip(base_pattern(start, group[s]))

\* number of members sent to A by the random split of n members
SplitSizes(n) == IF n % 2 = 0 THEN {n \div 2} ELSE {n \div 2, n \div 2 + 1}

\* The rows the code randomises are those selected by ~pattern_exception
\* (line 2043); the rows with pattern_exception keep the role rule.
RandomisedGroups == {g \in GroupIds(staff) : ~pattern_exception(g)}

InitialPatterns ==
    {p \in [DOMAIN role -> Patterns] :
        \E start \in Patterns :
            /\ \A s \in DOMAIN role :
                   (s \notin staff \/ group[s] \notin RandomisedGroups)
                       => p[s] = (IF s \in staff THEN RolePattern(start, s) ELSE "A")
            /\ \A g \in RandomisedGroups :
                   Count(p, Members(staff, g), "A")
                       \in SplitSizes(Cardinality(Members(staff, g)))}

-----------------------------------------------------------------------------
(* validate_and_fix_group_pattern_coverage *)

MissingCoverage(p, W, g) ==
    Count(p, Members(W, g), "A") = 0 \/ Count(p, Members(W, g), "B") = 0

StaffToSwap(W, g) ==
    LET m  == Members(W, g)
        cs == OfRole(m, COUNSELOR_ROLE_ID)
        js == OfRole(m, JUNIOR_COUNSELOR_ROLE_ID)
    IN  IF Cardinality(m) = 1 THEN {}
        ELSE IF cs # {} /\ js # {}
             THEN (IF Cardinality(cs) > Cardinality(js) THEN js ELSE cs)
        ELSE IF cs # {}
             THEN FirstK(cs, Max2(Cardinality(cs) \div 2, 1))
        ELSE FirstK(js, Max2(Cardinality(js) \div 2, 1))

validate_and_fix_group_pattern_coverage(p, W) ==
    [s \in DOMAIN p |->
        IF s \in W /\ MissingCoverage(p, W, group[s]) /\ s \in StaffToSwap(W, group[s])
        THEN Flip(p[s]) ELSE p[s]]

-----------------------------------------------------------------------------
(* Override Processor: process_hardcoded_assignments *)

FlipGroup(p, W, g) ==
    [s \in DOMAIN p |-> IF s \in W /\ group[s] = g THEN Flip(p[s]) ELSE p[s]]

\* The pair is looked up with isin(), so "second" is second in table order.
balance_schedule_for_job(p, W, ids) ==
    IF Len(ids) < 2 THEN p
    ELSE LET sub == {s \in W : s \in {ids[1], ids[2]}}
         IN  IF Cardinality(sub) < 2 THEN p
             ELSE IF p[MinOf(sub)] # p[MaxOf(sub)] THEN p
             ELSE FlipGroup(p, W, group[MaxOf(sub)])

RECURSIVE BalancePairedJobs(_, _, _)
BalancePairedJobs(p, W, pbj) ==
    IF pbj = <<>> THEN p
    ELSE BalancePairedJobs(
             IF Len(Head(pbj).ids) >= 2
             THEN balance_schedule_for_job(p, W, Head(pbj).ids) ELSE p,
             W, Tail(pbj))

\* rows of one staff member on every non-staff-game day of their pattern
PatternDayRows(p, W, sgd, s, j) ==
    IF s \notin W THEN <<>>
    ELSE LET r == [i \in 1..Len(Days) |->
                      IF Days[i] \notin sgd /\ p[s] = DayPattern(Days[i])
                      THEN <<Row(Days[i], s, j, "hardcoded")>> ELSE <<>>]
         IN  Concat(r)

\* rows of a duty -> staff-list mapping (paired duties, custom all_days)
PatternJobRows(p, W, sgd, m) ==
    Concat([k \in 1..Len(m) |->
              Concat([i \in 1..Len(m[k].ids) |->
                        PatternDayRows(p, W, sgd, m[k].ids[i], m[k].job)])])

StaffGameRows(W, sgdSeq) ==
    Concat([k \in 1..Len(sgdSeq) |->
              LET ws == SeqOfSet(W)
              IN  [i \in 1..Len(ws) |->
                      Row(sgdSeq[k], ws[i], STAFF_GAME_JOB_ID, "hardcoded")]])

\* remove the first occurrence of x from a sequence (list.remove)
RECURSIVE RemoveFirst(_, _)
RemoveFirst(s, x) ==
    IF s = <<>> THEN <<>>
    ELSE IF Head(s) = x THEN Tail(s) ELSE <<Head(s)>> \o RemoveFirst(Tail(s), x)

\* Step 2: the listed staff of the roster go to the days of their pattern
TieDyeInitial(p, W, tds, d) ==
    SelectSeq(tds, LAMBDA s : s \in W /\ p[s] = DayPattern(d))

\* Step 3, first half: minimum of two staff per day
TieDyeMinimum(b1, b2, tds) ==
    IF Len(b1) < MIN_STAFF_PER_DAY
    THEN (IF Len(b2) >= MIN_STAFF_PER_DAY - Len(b1)
          THEN <<b1 \o Take(b2, MIN_STAFF_PER_DAY - Len(b1)), b2>>
          ELSE <<tds, tds>>)
    ELSE IF Len(b2) < MIN_STAFF_PER_DAY
    THEN (IF Len(b1) >= MIN_STAFF_PER_DAY - Len(b2)
          THEN <<b1, b2 \o Take(b1, MIN_STAFF_PER_DAY - Len(b2))>>
          ELSE <<tds, tds>>)
    ELSE <<b1, b2>>

\* Step 3, second half: move staff from the larger day to the smaller one,
\* flipping the whole group of each moved staff member
RECURSIVE TieDyeMove(_, _, _, _, _)
TieDyeMove(p, W, larger, smaller, toMove) ==
    IF toMove = <<>> THEN [p |-> p, larger |-> larger, smaller |-> smaller]
    ELSE TieDyeMove(FlipGroup(p, W, group[Head(toMove)]), W,
                    RemoveFirst(larger, Head(toMove)),
                    Append(smaller, Head(toMove)),
                    Tail(toMove))

TieDyeBalance(p, W, b1, b2) ==
    IF Len(b1) >= MIN_STAFF_PER_DAY /\ Len(b2) >= MIN_STAFF_PER_DAY /\ Len(b1) # Len(b2)
    THEN LET oneLarger == Len(b1) > Len(b2)
             larger    == IF oneLarger THEN b1 ELSE b2
             smaller   == IF oneLarger THEN b2 ELSE b1
             numToMove == Min2(Abs(Len(b1) - Len(b2)) \div 2,
                               Len(larger) - MIN_STAFF_PER_DAY)
             onlyLarger == SelectSeq(larger, LAMBDA s : s \notin Range(smaller))
             m == TieDyeMove(p, W, larger, smaller,
                             IF numToMove > 0 THEN Take(onlyLarger, numToMove) ELSE <<>>)
         IN  [p |-> m.p,
              b1 |-> IF oneLarger THEN m.larger ELSE m.smaller,
              b2 |-> IF oneLarger THEN m.smaller ELSE m.larger]
    ELSE [p |-> p, b1 |-> b1, b2 |-> b2]

\* the tie dye block: the pattern table and the staff list of each tie dye day
TieDye(p, W, c) ==
    LET nsg == SelectSeq(c.tdd, LAMBDA d : d \notin Range(c.sgd))
    IN  IF c.tdd = <<>> \/ c.tds = <<>> THEN [p |-> p, days |-> <<>>, by |-> <<>>]
        ELSE IF Len(nsg) = 2
        THEN LET mn == TieDyeMinimum(TieDyeInitial(p, W, c.tds, nsg[1]),
                                     TieDyeInitial(p, W, c.tds, nsg[2]), c.tds)
                 bal == TieDyeBalance(p, W, mn[1], mn[2])
             IN  [p |-> bal.p, days |-> nsg, by |-> <<bal.b1, bal.b2>>]
        ELSE IF Len(nsg) = 1
        THEN [p |-> p, days |-> nsg,
              by |-> <<IF Len(TieDyeInitial(p, W, c.tds, nsg[1])) < MIN_STAFF_PER_DAY
                       THEN c.tds ELSE TieDyeInitial(p, W, c.tds, nsg[1])>>]
        ELSE [p |-> p, days |-> nsg,
              by |-> [i \in 1..Len(nsg) |-> TieDyeInitial(p, W, c.tds, nsg[i])]]

TieDyeRows(td) ==
    Concat([k \in 1..Len(td.days) |->
              [i \in 1..Len(td.by[k]) |->
                  Row(td.days[k], td.by[k][i], TIE_DYE_JOB_ID, "hardcoded")]])

SpecificDayRows(sp) ==
    [i \in 1..Len(sp) |-> Row(sp[i].day, sp[i].staff, sp[i].job, "hardcoded")]

\* (mutant of DropDuplicates) every row is kept
KeepDuplicates(rs) == rs

\* (mutant of DropDuplicates) the last row of each (day, staff) is kept
DropDuplicatesKeepLast(rs) ==
    SelectSeq([i \in 1..Len(rs) |->
                  IF \E k \in (i + 1)..Len(rs) :
                         rs[k].day = rs[i].day /\ rs[k].staff = rs[i].staff
                  THEN [day |-> "", staff |-> 0, job |-> 0, kind |-> "dup"]
                  ELSE rs[i]],
              LAMBDA r : r.kind # "dup")

\* drop_duplicates(subset=[day_name, staff_id], keep='first')
DropDuplicates(rs) ==
    SelectSeq([i \in 1..Len(rs) |->
                  IF \E k \in 1..(i - 1) :
                         rs[k].day = rs[i].day /\ rs[k].staff = rs[i].staff
                  THEN [day |-> "", staff |-> 0, job |-> 0, kind |-> "dup"]
                  ELSE rs[i]],
              LAMBDA r : r.kind # "dup")

WorkingRoster(S, c) == (S \ c.rem) \cup c.add

\* the list hardcoded_assignments as it stands before the duplicate check
hardcoded_assignments(p, W, c) ==
    LET p1 == BalancePairedJobs(p, W, c.pbj)
        td == TieDye(p1, W, c)
    IN  StaffGameRows(W, c.sgd)
        \o PatternJobRows(p1, W, Range(c.sgd), c.pbj)
        \o TieDyeRows(td)
        \o PatternJobRows(td.p, W, Range(c.sgd), c.all_days)
        \o SpecificDayRows(c.specific)

\* Returns the pinned-assignment table and the updated pattern table.
process_hardcoded_assignments(p, W, c) ==
    [hard |-> DropDuplicates(hardcoded_assignments(p, W, c)),
     p |-> TieDye(BalancePairedJobs(p, W, c.pbj), W, c).p]

\* build_lunch_job_assignments, step 5.5: the ids named by any override list
HardcodedStaffIds(c) ==
    UNION {Range(c.pbj[k].ids) : k \in 1..Len(c.pbj)}
    \cup Range(c.tds)
    \cup UNION {Range(c.all_days[k].ids) : k \in 1..Len(c.all_days)}
    \cup {c.specific[i].staff : i \in 1..Len(c.specific)}

-----------------------------------------------------------------------------
(* Balance Engine *)

OtherPattern(L) == Flip(L)

\* net reduction of the imbalance if the non-pinned members of g are swapped
NetSwap(p, E, g, L) == Count(p, Members(E, g), L) - Count(p, Members(E, g), OtherPattern(L))

\* groups with a non-pinned member in the larger pattern, sorted by net_swap
\* descending (a stable sort of the groupby order, i.e. of the group ids)
RECURSIVE SortByNetSwap(_, _, _, _)
SortByNetSwap(p, E, G, L) ==
    IF G = {} THEN <<>>
    ELSE LET best == CHOOSE g \in G :
                        \A h \in G : \/ NetSwap(p, E, g, L) > NetSwap(p, E, h, L)
                                     \/ /\ NetSwap(p, E, g, L) = NetSwap(p, E, h, L)
                                        /\ g <= h
         IN  <<best>> \o SortByNetSwap(p, E, G \ {best}, L)

\* (mutant of SwapGroup) the swap reaches every member of the group, pinned or not
SwapGroupWithPinned(p, E, g) ==
    [s \in DOMAIN p |-> IF group[s] = g THEN Flip(p[s]) ELSE p[s]]

\* the swap of one group: only its non-pinned members change
SwapGroup(p, E, g) ==
    [s \in DOMAIN p |-> IF s \in E /\ group[s] = g THEN Flip(p[s]) ELSE p[s]]

RECURSIVE SwapLoop(_, _, _, _, _, _)
SwapLoop(p0, p, E, order, L, currentDiff) ==
    IF order = <<>> \/ currentDiff <= GROUP_TOLERANCE THEN p
    ELSE LET net     == NetSwap(p0, E, Head(order), L)
             newDiff == Abs(currentDiff - 2 * net)
         IN  IF newDiff < currentDiff \/ (newDiff = currentDiff /\ net > 0)
             THEN SwapLoop(p0, SwapGroup(p, E, Head(order)), E, Tail(order), L, newDiff)
             ELSE SwapLoop(p0, p, E, Tail(order), L, currentDiff)

balance_pattern_distribution(p, W, H) ==
    IF Skew(p, W) <= GROUP_TOLERANCE THEN p
    ELSE LET L == IF Count(p, W, "A") > Count(p, W, "B") THEN "A" ELSE "B"
             E == W \ H
             G == {g \in GroupIds(E) : Count(p, Members(E, g), L) > 0}
         IN  SwapLoop(p, p, E, SortByNetSwap(p, E, G, L), L, Skew(p, W))

_balance_single_role_patterns(p, W, r, H) ==
    LET rs == OfRole(W, r)
        L  == IF Count(p, rs, "A") > Count(p, rs, "B") THEN "A" ELSE "B"
        eligible == {s \in rs : p[s] = L /\ s \notin H}
        numToSwap == Min2(Skew(p, rs) \div 2, Cardinality(eligible))
        toSwap == FirstK(eligible, numToSwap)
    IN  [s \in DOMAIN p |-> IF s \in toSwap THEN OtherPattern(L) ELSE p[s]]

\* (mutant of balance_role_patterns) the role pass is entered one step too late
balance_role_patterns_late(p, W, H) ==
    LET cDiff  == Skew(p, OfRole(W, COUNSELOR_ROLE_ID))
        jcDiff == Skew(p, OfRole(W, JUNIOR_COUNSELOR_ROLE_ID))
        p1 == IF cDiff > ROLE_TOLERANCE + 1
              THEN _balance_single_role_patterns(p, W, COUNSELOR_ROLE_ID, H) ELSE p
    IN  IF jcDiff > ROLE_TOLERANCE + 1
        THEN _balance_single_role_patterns(p1, W, JUNIOR_COUNSELOR_ROLE_ID, H) ELSE p1

balance_role_patterns(p, W, H) ==
    LET cDiff  == Skew(p, OfRole(W, COUNSELOR_ROLE_ID))
        jcDiff == Skew(p, OfRole(W, JUNIOR_COUNSELOR_ROLE_ID))
        p1 == IF cDiff > ROLE_TOLERANCE
              THEN _balance_single_role_patterns(p, W, COUNSELOR_ROLE_ID, H) ELSE p
    IN  IF jcDiff > ROLE_TOLERANCE
        THEN _balance_single_role_patterns(p1, W, JUNIOR_COUNSELOR_ROLE_ID, H) ELSE p1

-----------------------------------------------------------------------------
(* Inputs: rosters and override sets *)

\* A roster of n staff as the SQL returns it: ordered by group, then role.
\* Position n+1 describes the staff member an "add" entry would append
\* (role defaulted to counselor, line 393).
GroupOfBreaks(B, i) == 1 + Cardinality({b \in B : b <= i})

Rosters(n) ==
    {[role |-> [i \in 1..(n + 1) |-> IF i <= n THEN r[i] ELSE COUNSELOR_ROLE_ID],
      group |-> [i \in 1..(n + 1) |-> IF i <= n THEN GroupOfBreaks(B, i) ELSE g]] :
        <<B, r, g>> \in
            {x \in (SUBSET (2..n)) \X [1..n -> Roles] \X {1} :
                /\ Cardinality(x[1]) < MaxGroups
                /\ \A i \in 1..(n - 1) :
                       (GroupOfBreaks(x[1], i) = GroupOfBreaks(x[1], i + 1))
                           => x[2][i] <= x[2][i + 1]}}

EmptyConfig ==
    [pbj |-> <<>>, sgd |-> <<>>, tdd |-> <<>>, tds |-> <<>>,
     rem |-> {}, add |-> {}, all_days |-> <<>>, specific |-> <<>>]

Job(j, ids) == [job |-> j, ids |-> ids]
Pin(s, j, d) == [staff |-> s, job |-> j, day |-> d]

\* free-form pins of a set of staff to an ordinary duty on one day
PinConfigs(n, d) ==
    {[EmptyConfig EXCEPT
         !.specific = [i \in 1..Cardinality(S) |-> Pin(SeqOfSet(S)[i], GENERAL_JOB_ID, d)]] :
        S \in SUBSET (1..n)}

\* one paired duty with an ordered pair of staff
PairConfigs(n) ==
    {[EmptyConfig EXCEPT !.pbj = <<Job(ARTS_CRAFTS_JOB_ID, <<x, y>>)>>] :
        <<x, y>> \in {z \in (1..n) \X (1..n) : z[1] # z[2]}}

\* special-duty staff lists on two special days
TieDyeConfigs(n, days) ==
    {[EmptyConfig EXCEPT !.tdd = days, !.tds = SeqOfSet(S)] :
        S \in (SUBSET (1..n)) \ {{}}}

-----------------------------------------------------------------------------
(* Actions: the stages of build_lunch_job_assignments *)

Idle == /\ jobs = <<>> /\ week = 0 /\ configs = <<>> /\ gmap = <<>> /\ outPat = <<>>
        /\ rows = <<>> /\ locked = {} /\ dayIdx = 0 /\ prevRows = <<>>

InitWith(n, family) ==
    /\ pc = "start"
    /\ staff = 1..n
    /\ \E r \in Rosters(n) : role = r.role /\ group = r.group
    /\ cfg \in family
    /\ pat = [s \in 1..(n + 1) |-> "A"]
    /\ prev = pat
    /\ work = staff
    /\ hard = <<>>
    /\ pinned = {}
    /\ Idle

\* steps 2-4 and the first coverage fix (lines 1935-2080), single-week mode
AssignPatterns ==
    /\ pc = "start"
    /\ \E p \in InitialPatterns :
           pat' = validate_and_fix_group_pattern_coverage(p, staff)
    /\ prev' = pat
    /\ pc' = "patterns"
    /\ UNCHANGED <<staff, role, group, cfg, work, hard, pinned, rows, locked,
                   jobs, week, configs, gmap, outPat, dayIdx, prevRows>>

\* step 5 (lines 2085-2096) and the collection of the pinned ids (2102-2117)
ProcessOverrides ==
    /\ pc = "patterns"
    /\ work' = WorkingRoster(staff, cfg)
    /\ LET r == process_hardcoded_assignments(pat, work', cfg)
       IN  hard' = r.hard /\ pat' = r.p
    /\ pinned' = HardcodedStaffIds(cfg)
    /\ prev' = pat
    /\ pc' = "overrides"
    /\ UNCHANGED <<staff, role, group, cfg, rows, locked, jobs, week, configs, gmap, outPat, dayIdx, prevRows>>

\* the coverage fix after override processing (line 2120)
CoverageFix ==
    /\ pc = "overrides"
    /\ pat' = validate_and_fix_group_pattern_coverage(pat, work)
    /\ prev' = pat
    /\ pc' = "coverage"
    /\ UNCHANGED <<staff, role, group, cfg, work, hard, pinned, rows, locked,
                   jobs, week, configs, gmap, outPat, dayIdx, prevRows>>

\* group-based pass (line 2126)
BalanceGroups ==
    /\ pc = "coverage"
    /\ week = 0
    /\ pat' = balance_pattern_distribution(pat, work, pinned)
    /\ prev' = pat
    /\ pc' = "group_balanced"
    /\ UNCHANGED <<staff, role, group, cfg, work, hard, pinned, rows, locked,
                   jobs, week, configs, gmap, outPat, dayIdx, prevRows>>

\* role-based pass (line 2129)
BalanceRoles ==
    /\ pc = "group_balanced"
    /\ pat' = balance_role_patterns(pat, work, pinned)
    /\ prev' = pat
    /\ pc' = "balanced"
    /\ UNCHANGED <<staff, role, group, cfg, work, hard, pinned, rows, locked,
                   jobs, week, configs, gmap, outPat, dayIdx, prevRows>>

-----------------------------------------------------------------------------
(* Specification of the Balance Engine inside the single-week pipeline *)

BalanceConfigs ==
    PinConfigs(NumStaff, "monday")
    \cup PairConfigs(NumStaff)
    \cup TieDyeConfigs(NumStaff, <<"tuesday", "wednesday">>)

InitBalance == InitWith(NumStaff, BalanceConfigs)

NextBalance ==
    \/ AssignPatterns
    \/ ProcessOverrides
    \/ CoverageFix
    \/ BalanceGroups
    \/ BalanceRoles

SpecBalance == InitBalance /\ [][NextBalance]_vars

-----------------------------------------------------------------------------
(* Claims about the Balance Engine, checked under SpecBalance *)

BothPatterns(p, S) == Count(p, S, "A") >= 1 /\ Count(p, S, "B") >= 1

\* C3: in single-week mode, once pattern assignment, override processing and
\* both balancing passes have run, every group with at least two members has
\* a member in pattern A and a member in pattern B.
C3_GroupCoverageAfterBalancing ==
    pc = "balanced" =>
        \A g \in GroupIds(work) :
            Cardinality(Members(work, g)) >= 2 => BothPatterns(pat, Members(work, g))

LargerPattern(p, S) == IF Count(p, S, "A") > Count(p, S, "B") THEN "A" ELSE "B"

\* C5: after the role-based pass, each role either has |countA - countB| <= 3
\* or has no non-pinned member left in its larger pattern.
C5_RoleSkewOrNoSwapLeft ==
    pc = "balanced" =>
        \A r \in Roles :
            \/ Skew(pat, OfRole(work, r)) <= ROLE_TOLERANCE
            \/ ~ \E s \in OfRole(work, r) \ pinned :
                     pat[s] = LargerPattern(pat, OfRole(work, r))

\* the role pass moved somebody and left a role that is still over tolerance
C5_Witness ==
    /\ pc = "balanced"
    /\ pat # prev
    /\ \E r \in Roles : Skew(prev, OfRole(work, r)) > ROLE_TOLERANCE

\* C6: neither balancing pass changes the pattern of a pinned staff member.
C6_PinnedUntouchedByBalancing ==
    pc \in {"group_balanced", "balanced"} =>
        \A s \in pinned \cap DOMAIN pat : pat[s] = prev[s]

\* the group pass swapped the free members of a group that has a pinned member
C6_Witness ==
    /\ pc = "group_balanced"
    /\ \E s \in pinned \cap work :
           \E t \in Members(work, group[s]) : pat[t] # prev[t]

\* groups of the roster with staff of both roles: the role rule gives such a
\* group both patterns, so the coverage fix that closes the pattern
\* assignment (line 2080) leaves it alone
MixedGroups == {g \in GroupIds(staff) : /\ OfRole(Members(staff, g), COUNSELOR_ROLE_ID) # {}
                                        /\ OfRole(Members(staff, g), JUNIOR_COUNSELOR_ROLE_ID) # {}}

\* C20: after the single-week pattern assignment, the members of every group
\* flagged as exception are split with |nA - nB| <= 1, and in every group not
\* flagged as exception the counselors hold the group's base pattern and the
\* junior counselors the opposite one (stated for the groups with both
\* roles, which the closing coverage fix cannot have touched).
C20_ExceptionGroupsSplitOthersRoleRule ==
    pc = "patterns" =>
        \E start \in Patterns :
            \A g \in GroupIds(staff) :
                IF pattern_exception(g)
                THEN Skew(pat, Members(staff, g)) <= 1
                ELSE g \in MixedGroups =>
                         \A s \in Members(staff, g) : pat[s] = RolePattern(start, s)

-----------------------------------------------------------------------------
(* Specification of the Balance Engine on a roster with a large group *)

\* staff in the roster of the skew specification
SkewStaff == 7
\* junior counselors in that roster
SkewJuniors == 2
\* staff pinned by its override sets
SkewPins == 2

SkewRosters ==
    {r \in Rosters(SkewStaff) :
        Cardinality({i \in 1..SkewStaff : r.role[i] = JUNIOR_COUNSELOR_ROLE_ID}) = SkewJuniors}

SkewConfigs == {c \in PinConfigs(SkewStaff, "monday") : Len(c.specific) = SkewPins}

InitSkew ==
    /\ pc = "start"
    /\ staff = 1..SkewStaff
    /\ \E r \in SkewRosters : role = r.role /\ group = r.group
    /\ cfg \in SkewConfigs
    /\ pat = [s \in 1..(SkewStaff + 1) |-> "A"]
    /\ prev = pat
    /\ work = staff
    /\ hard = <<>>
    /\ pinned = {}
    /\ Idle

NextSkew ==
    \/ AssignPatterns
    \/ ProcessOverrides
    \/ CoverageFix
    \/ BalanceGroups
    \/ BalanceRoles

SpecSkew == InitSkew /\ [][NextSkew]_vars

\* a group none of whose members is pinned, and whose flip strictly reduces
\* the global skew
FreeGroupReduces(g) ==
    /\ Members(work, g) \cap pinned = {}
    /\ Skew(SwapGroup(pat, work, g), work) < Skew(pat, work)

\* C4: after both balancing passes the global skew |countA - countB| is at
\* most 2 whenever at least one group has a non-pinned member that could be
\* flipped.  Stated here in its weakest reading, the one the claim implies
\* under every reading of "could be flipped": whenever some group without
\* any pinned member would strictly reduce the skew if it were flipped.
C4_GlobalSkewWithinTolerance ==
    (pc = "balanced" /\ \E g \in GroupIds(work) : FreeGroupReduces(g))
        => Skew(pat, work) <= GROUP_TOLERANCE

\* C23: the group-based pass never returns a staff table whose global skew
\* |countA - countB| exceeds the skew of the table it was given (every flip
\* it performs strictly reduces the actual skew, also after a flip that
\* makes the other pattern the larger one).
C23_GroupPassNeverRaisesSkew ==
    pc = "group_balanced" => Skew(pat, work) <= Skew(prev, work)

-----------------------------------------------------------------------------
(* Specification of the Override Processor *)

OrderedPairs(n) == {z \in (1..n) \X (1..n) : z[1] # z[2]}

\* one or two paired duties, with or without an all-staff day
PairedDutyConfigs(n) ==
    {[EmptyConfig EXCEPT !.pbj = <<Job(ARTS_CRAFTS_JOB_ID, <<a[1], a[2]>>)>>, !.sgd = g] :
        <<a, g>> \in OrderedPairs(n) \X {<<>>, <<"monday">>}}
    \cup
    {[EmptyConfig EXCEPT !.pbj = <<Job(ARTS_CRAFTS_JOB_ID, <<a[1], a[2]>>),
                                   Job(CARD_TRADING_JOB_ID, <<b[1], b[2]>>)>>,
                         !.sgd = g] :
        <<a, b, g>> \in OrderedPairs(n) \X OrderedPairs(n) \X {<<>>, <<"monday">>}}

OverrideConfigs ==
    PairedDutyConfigs(OverrideStaff)
    \cup TieDyeConfigs(OverrideStaff, <<"tuesday", "wednesday">>)

InitOverride == InitWith(OverrideStaff, OverrideConfigs)

NextOverride ==
    \/ AssignPatterns
    \/ ProcessOverrides
    \/ CoverageFix

SpecOverride == InitOverride /\ [][NextOverride]_vars

HardRow(d, s, j) == \E i \in 1..Len(hard) :
                        hard[i].day = d /\ hard[i].staff = s /\ hard[i].job = j

PinnedOnPatternDays(s, j) ==
    \A i \in 1..Len(Days) :
        Days[i] \notin Range(cfg.sgd) =>
            (HardRow(Days[i], s, j) <=> pat[s] = DayPattern(Days[i]))

\* C10: after override processing, the first two staff X, Y of every paired
\* duty carry opposite patterns; if they started with the same pattern, Y's
\* whole group was flipped; and each is pinned to the duty on exactly the
\* non-all-staff days of their resulting pattern.
C10_PairedDutySplit ==
    pc = "overrides" =>
        \A k \in 1..Len(cfg.pbj) :
            LET X == cfg.pbj[k].ids[1]
                Y == cfg.pbj[k].ids[2]
            IN  (Len(cfg.pbj[k].ids) >= 2 /\ X \in work /\ Y \in work) =>
                    /\ pat[X] # pat[Y]
                    /\ prev[X] = prev[Y] =>
                           \A s \in Members(work, group[Y]) : pat[s] = Flip(prev[s])
                    /\ PinnedOnPatternDays(X, cfg.pbj[k].job)
                    /\ PinnedOnPatternDays(Y, cfg.pbj[k].job)

\* C27: after override processing and the coverage fix that follows it,
\* every roster member pinned to a paired duty is pinned to it on exactly the
\* non-all-staff days of the pattern they carry in the staff table: no pin
\* sits on a day of the opposite pattern, and every day of their pattern has
\* the pin (or an earlier pinned row of theirs that the duplicate check kept).
C27_PairedPinsFollowFinalPattern ==
    pc = "coverage" =>
        \A k \in 1..Len(cfg.pbj) : \A s \in Range(cfg.pbj[k].ids) \cap work :
            \A d \in DaySet \ Range(cfg.sgd) :
                /\ HardRow(d, s, cfg.pbj[k].job) => pat[s] = DayPattern(d)
                /\ pat[s] = DayPattern(d) =>
                       \E i \in 1..Len(hard) : hard[i].day = d /\ hard[i].staff = s

-----------------------------------------------------------------------------
(* Specification of the Override Processor on special-duty lists, overlapping
   override categories and entries that name staff outside the roster *)

\* staff in the roster of this specification
PinStaff == 4

\* special-duty lists on two days of opposite or of equal pattern
SpecialDutyConfigs(n) ==
    UNION {TieDyeConfigs(n, days) :
              days \in {<<"monday", "tuesday">>, <<"tuesday", "wednesday">>,
                        <<"monday", "wednesday">>}}

\* a staff member named by two override categories for the same day
OverlapConfigs(n) ==
    {[EmptyConfig EXCEPT !.pbj = <<Job(ARTS_CRAFTS_JOB_ID, <<1, y>>)>>,
                         !.all_days = <<Job(COUNSELOR_ACTIVITY_JOB_ID, <<1>>)>>] : y \in 2..n}
    \cup {[EmptyConfig EXCEPT !.all_days = <<Job(j, <<s>>)>>,
                              !.specific = <<Pin(s, k, d)>>] :
             <<s, d, j, k>> \in {x \in (1..n) \X {"monday", "tuesday"}
                                        \X {COUNSELOR_ACTIVITY_JOB_ID, GENERAL_JOB_ID}
                                        \X {COUNSELOR_ACTIVITY_JOB_ID, GENERAL_JOB_ID} :
                                    x[3] # x[4]}}
    \cup {[EmptyConfig EXCEPT !.specific = <<Pin(s, GENERAL_JOB_ID, d),
                                             Pin(s, COUNSELOR_ACTIVITY_JOB_ID, d)>>] :
             <<s, d>> \in (1..n) \X {"monday", "tuesday"}}

\* entries of every category that name staff member 1, who may have been
\* removed from the roster, or the id n + 1, which was never on it
AbsentConfigs(n) ==
    UNION {{[EmptyConfig EXCEPT !.rem = R, !.pbj = <<Job(ARTS_CRAFTS_JOB_ID, <<1, y>>)>>],
            [EmptyConfig EXCEPT !.rem = R, !.all_days = <<Job(GENERAL_JOB_ID, <<1, y>>)>>],
            [EmptyConfig EXCEPT !.rem = R, !.specific = <<Pin(1, GENERAL_JOB_ID, "monday")>>],
            [EmptyConfig EXCEPT !.rem = R, !.tdd = <<"monday", "tuesday">>, !.tds = <<1, y>>],
            [EmptyConfig EXCEPT !.rem = R, !.tdd = <<"tuesday">>, !.tds = <<1, y>>]} :
              <<R, y>> \in {{}, {1}} \X {2, n + 1}}

PinFamily ==
    SpecialDutyConfigs(PinStaff) \cup OverlapConfigs(PinStaff) \cup AbsentConfigs(PinStaff)

InitPins == InitWith(PinStaff, PinFamily)

NextPins ==
    \/ AssignPatterns
    \/ ProcessOverrides

SpecPins == InitPins /\ [][NextPins]_vars

\* the listed special-duty staff pinned to the special duty on day d
SpecialDutyOn(d) == {s \in 1..(PinStaff + 1) : HardRow(d, s, TIE_DYE_JOB_ID)}

\* the listed staff whose pattern before override processing matches day d
ListedOn(d) == {s \in Range(cfg.tds) \cap work : prev[s] = DayPattern(d)}

\* C11: a special-duty override with two listed days whose staff patterns put
\* 1 staff member on the first day and 3 on the second: override processing
\* moves exactly one staff member from the second day to the first, flips
\* that member's whole group, and ends with 2 special-duty pins on each day,
\* nobody being pinned to the special duty on both days.
C11_SpecialDutyTwoAndTwo ==
    (/\ pc = "overrides"
     /\ Len(cfg.tdd) = 2
     /\ Cardinality(ListedOn(cfg.tdd[1])) = 1
     /\ Cardinality(ListedOn(cfg.tdd[2])) = 3)
        => /\ Cardinality(SpecialDutyOn(cfg.tdd[1])) = 2
           /\ Cardinality(SpecialDutyOn(cfg.tdd[2])) = 2
           /\ SpecialDutyOn(cfg.tdd[1]) \cap SpecialDutyOn(cfg.tdd[2]) = {}
           /\ \E m \in ListedOn(cfg.tdd[2]) :
                  /\ SpecialDutyOn(cfg.tdd[1]) = ListedOn(cfg.tdd[1]) \cup {m}
                  /\ \A s \in work : pat[s] = (IF group[s] = group[m]
                                               THEN Flip(prev[s]) ELSE prev[s])

\* the rows for (d, s) in the list built before the duplicate check
Candidates(d, s) ==
    SelectSeq(hardcoded_assignments(prev, work, cfg),
              LAMBDA r : r.day = d /\ r.staff = s)

KeptRows(d, s) == SelectSeq(hard, LAMBDA r : r.day = d /\ r.staff = s)

\* C13: when override processing produces more than one pinned row for the
\* same (day, staff), exactly one row is kept: the first in processing order,
\* except that when one of the rows is for the designated role-mix duty the
\* role-mix row is the one kept.
C13_DuplicateKeepsRoleMixRow ==
    pc = "overrides" =>
        \A d \in DaySet : \A s \in 1..(PinStaff + 1) :
            Len(Candidates(d, s)) > 1 =>
                /\ Len(KeptRows(d, s)) = 1
                /\ KeptRows(d, s)[1].job =
                       (IF \E i \in 1..Len(Candidates(d, s)) :
                               Candidates(d, s)[i].job = COUNSELOR_ACTIVITY_JOB_ID
                        THEN COUNSELOR_ACTIVITY_JOB_ID
                        ELSE Candidates(d, s)[1].job)

\* C14: an override entry that names a staff id absent from the working
\* roster is skipped: no pinned row returned by override processing carries
\* a staff id outside the roster.
C14_NoPinOutsideRoster ==
    pc = "overrides" => \A i \in 1..Len(hard) : hard[i].staff \in work

\* C24: with exactly two special-duty days, neither an all-staff day, and at
\* least two listed special-duty staff in the roster, override processing
\* leaves at least 2 staff pinned to the special duty on each of the two days.
C24_SpecialDutyMinimumOnBothDays ==
    (/\ pc = "overrides"
     /\ Len(cfg.tdd) = 2
     /\ Range(cfg.tdd) \cap Range(cfg.sgd) = {}
     /\ Cardinality(Range(cfg.tds) \cap work) >= MIN_STAFF_PER_DAY)
        => \A k \in 1..2 : Cardinality(SpecialDutyOn(cfg.tdd[k])) >= MIN_STAFF_PER_DAY

-----------------------------------------------------------------------------
(* Specification of the Override Processor on special-duty lists long enough
   for the headcount balancing to move staff between the two special days *)

\* staff in the roster of the move specification
MoveStaff == 6
\* listed special-duty staff
MoveListed == 4

\* four listed special-duty staff on two special days of opposite pattern,
\* alone or next to a paired duty with one staff member
MoveConfigs ==
    {[EmptyConfig EXCEPT !.tdd = <<"monday", "tuesday">>, !.tds = SeqOfSet(S), !.pbj = j] :
        <<S, j>> \in {T \in SUBSET (1..MoveStaff) : Cardinality(T) = MoveListed}
                     \X ({<<>>} \cup {<<Job(ARTS_CRAFTS_JOB_ID, <<x>>)>> : x \in {3, MoveStaff}})}

InitMove == InitWith(MoveStaff, MoveConfigs)

NextMove ==
    \/ AssignPatterns
    \/ ProcessOverrides
    \/ CoverageFix

SpecMove == InitMove /\ [][NextMove]_vars

\* the special-duty lists of the two special days after override processing
SpecialLists == TieDye(BalancePairedJobs(prev, work, cfg.pbj), work, cfg)

\* the listed staff who started on special day o and ended on special day d only
MovedTo(d, o) ==
    {s \in Range(cfg.tds) \cap work :
        /\ BalancePairedJobs(prev, work, cfg.pbj)[s] = DayPattern(o)
        /\ \E k \in 1..2 : /\ SpecialLists.days[k] = d
                           /\ s \in Range(SpecialLists.by[k])
                           /\ s \notin Range(SpecialLists.by[3 - k])}

\* C28: when the special-duty balancing moves staff from the larger special
\* day to the smaller one, every listed staff member who ends on one special
\* day only (moved there, or left where they were) ends override processing
\* with the pattern of that day.
C28_SpecialDutyPatternFollowsDay ==
    (/\ pc = "overrides"
     /\ Len(SpecialLists.days) = 2
     /\ \/ MovedTo(SpecialLists.days[1], SpecialLists.days[2]) # {}
        \/ MovedTo(SpecialLists.days[2], SpecialLists.days[1]) # {})
        => \A k \in 1..2 :
               \A s \in Range(SpecialLists.by[k]) \ Range(SpecialLists.by[3 - k]) :
                   pat[s] = DayPattern(SpecialLists.days[k])

-----------------------------------------------------------------------------
(* Multi-Period Orchestrator: balance_staff_patterns_across_weeks *)

\* staff named by a paired-duty list or the special-duty list of any week
MultiHardcodedIds(cs) ==
    UNION {UNION {Range(cs[w].pbj[k].ids) : k \in 1..Len(cs[w].pbj)} \cup Range(cs[w].tds) :
              w \in 1..Len(cs)}

\* Phase 1: pinned staff, in table order, each to the pattern with fewer staff
RECURSIVE AssignAlternating(_, _, _, _)
AssignAlternating(ss, m, a, b) ==
    IF ss = <<>> THEN [m |-> m, a |-> a, b |-> b]
    ELSE IF a <= b
         THEN AssignAlternating(Tail(ss), [m EXCEPT ![Head(ss)] = "A"], a + 1, b)
         ELSE AssignAlternating(Tail(ss), [m EXCEPT ![Head(ss)] = "B"], a, b + 1)

\* flexible groups, largest first (ties in order of appearance)
RECURSIVE SortBySize(_, _)
SortBySize(F, G) ==
    IF G = {} THEN <<>>
    ELSE LET best == CHOOSE g \in G :
                        \A h \in G :
                            \/ Cardinality(Members(F, g)) > Cardinality(Members(F, h))
                            \/ /\ Cardinality(Members(F, g)) = Cardinality(Members(F, h))
                               /\ g <= h
         IN  <<best>> \o SortBySize(F, G \ {best})

\* Phase 2: each flexible group, whole, to the pattern with fewer staff
RECURSIVE AssignGroups(_, _, _, _, _)
AssignGroups(gs, F, m, a, b) ==
    IF gs = <<>> THEN m
    ELSE LET mem == Members(F, Head(gs))
         IN  IF a <= b
             THEN AssignGroups(Tail(gs), F,
                               [s \in DOMAIN m |-> IF s \in mem THEN "A" ELSE m[s]],
                               a + Cardinality(mem), b)
             ELSE AssignGroups(Tail(gs), F,
                               [s \in DOMAIN m |-> IF s \in mem THEN "B" ELSE m[s]],
                               a, b + Cardinality(mem))

\* Phase 3: per role, swap flexible staff when the role skew exceeds 3; the
\* role counts are taken once, before any swap
RoleAdjust(m0, m, F, r) ==
    LET rs == OfRole(staff, r)
        L  == IF Count(m0, rs, "A") > Count(m0, rs, "B") THEN "A" ELSE "B"
        swappable == {s \in OfRole(F, r) : m[s] = L}
        numToSwap == Skew(m0, rs) \div 2
    IN  IF rs # {} /\ Skew(m0, rs) > ROLE_TOLERANCE /\ Cardinality(swappable) >= numToSwap
        THEN [s \in DOMAIN m |-> IF s \in FirstK(swappable, numToSwap) THEN Flip(L) ELSE m[s]]
        ELSE m

balance_staff_patterns_across_weeks(cs) ==
    LET H  == staff \cap MultiHardcodedIds(cs)
        F  == staff \ H
        p1 == AssignAlternating(SeqOfSet(H), [s \in DOMAIN role |-> "A"], 0, 0)
        p2 == AssignGroups(SortBySize(F, GroupIds(F)), F, p1.m, p1.a, p1.b)
        p3 == RoleAdjust(p2, p2, F, COUNSELOR_ROLE_ID)
    IN  RoleAdjust(p2, p3, F, JUNIOR_COUNSELOR_ROLE_ID)

-----------------------------------------------------------------------------
(* Actions of build_multi_week_schedule *)

\* STEP 2 of build_multi_week_schedule (line 3170)
GlobalBalance ==
    /\ pc = "multi_start"
    /\ gmap' = balance_staff_patterns_across_weeks(configs)
    /\ week' = 1
    /\ cfg' = configs[1]
    /\ pc' = "week_start"
    /\ UNCHANGED <<staff, role, group, pat, work, hard, pinned, rows, locked,
                   jobs, configs, outPat, prev, dayIdx, prevRows>>

\* steps 3-4 of build_lunch_job_assignments with precomputed patterns
\* (lines 1964-1991, 2051, 2080): the map is copied, nothing is randomised,
\* then the first coverage fix runs
UsePrecomputedPatterns ==
    /\ pc = "week_start"
    /\ pat' = validate_and_fix_group_pattern_coverage(gmap, staff)
    /\ prev' = gmap
    /\ work' = staff
    /\ pc' = "patterns"
    /\ UNCHANGED <<staff, role, group, cfg, hard, pinned, rows, locked,
                   jobs, week, configs, gmap, outPat, dayIdx, prevRows>>

\* The week's output (lines 2160-2166, 3225-3234): every member of the
\* working roster has a row, and its pattern column is the staff table
\* handed to the fill; the per-week balancing is skipped (line 2131).
FinishWeek ==
    /\ pc = "coverage"
    /\ week >= 1
    /\ outPat' = Append(outPat, [work |-> work, pat |-> pat])
    /\ IF week < Len(configs)
       THEN week' = week + 1 /\ cfg' = configs[week + 1] /\ pc' = "week_start"
       ELSE week' = week /\ cfg' = cfg /\ pc' = "multi_done"
    /\ UNCHANGED <<staff, role, group, pat, work, hard, pinned, rows, locked,
                   jobs, configs, gmap, prev, dayIdx, prevRows>>

-----------------------------------------------------------------------------
(* Specification of a multi-week run *)

\* staff in the roster of the multi-week specification
MultiStaff == 3
\* weeks of a multi-week run
NumWeeks == 2

RemoveConfigs(n) == {[EmptyConfig EXCEPT !.rem = {s}] : s \in 1..n}

WeekConfigs ==
    {EmptyConfig}
    \cup PairConfigs(MultiStaff)
    \cup TieDyeConfigs(MultiStaff, <<"tuesday", "wednesday">>)
    \cup RemoveConfigs(MultiStaff)

InitMulti ==
    /\ pc = "multi_start"
    /\ staff = 1..MultiStaff
    /\ \E r \in Rosters(MultiStaff) : role = r.role /\ group = r.group
    /\ configs \in [1..NumWeeks -> WeekConfigs]
    /\ cfg = EmptyConfig
    /\ pat = [s \in 1..(MultiStaff + 1) |-> "A"]
    /\ prev = pat
    /\ work = staff
    /\ hard = <<>>
    /\ pinned = {}
    /\ jobs = <<>> /\ week = 0 /\ gmap = <<>> /\ outPat = <<>>
    /\ rows = <<>> /\ locked = {} /\ dayIdx = 0 /\ prevRows = <<>>

NextMulti ==
    \/ GlobalBalance
    \/ UsePrecomputedPatterns
    \/ ProcessOverrides
    \/ CoverageFix
    \/ FinishWeek

SpecMulti == InitMulti /\ [][NextMulti]_vars

\* C2: in a multi-week run, a staff member has the same pattern in every
\* week in whose output the member appears.
C2_SamePatternEveryWeek ==
    \A w1 \in 1..Len(outPat) : \A w2 \in 1..Len(outPat) :
        \A s \in outPat[w1].work \cap outPat[w2].work :
            outPat[w1].pat[s] = outPat[w2].pat[s]

\* C16: in a multi-week run the global staff -> pattern map is authoritative:
\* for every week and every staff member present in the map, the pattern
\* recorded in that week's output equals the map's value.
C16_GlobalMapAuthoritative ==
    \A w \in 1..Len(outPat) :
        \A s \in outPat[w].work \cap staff : outPat[w].pat[s] = gmap[s]

-----------------------------------------------------------------------------
(* Greedy Duty Filler: pre_assign_counselor_activity *)

\* a missing value of the duty catalog or of an assignment row (None / NaN)
None == -1

\* one row of the duty catalog
JobInfo(id, mn, normal, mx, prio) ==
    [id |-> id, min |-> mn, normal |-> normal, max |-> mx, priority |-> prio]

CatalogIds(cat) == {cat[i].id : i \in 1..Len(cat)}

DayRows(rs, d) == SelectSeq(rs, LAMBDA r : r.day = d)
StaffIn(rs) == {rs[i].staff : i \in 1..Len(rs)}
JobsIn(rs) == {rs[i].job : i \in 1..Len(rs)}

\* days on which the pinned table holds an all-staff row (line 1492)
staff_game_days(h) == {h[i].day : i \in {k \in 1..Len(h) : h[k].job = STAFF_GAME_JOB_ID}}

\* The pairs (counselor, junior counselor) the pre-assignment may draw on day
\* d; the empty tuple when the day is skipped (lines 1503-1556).  Staff with
\* any pinned row on the day are excluded, which covers the protected duties.
LockChoices(p, W, h, d) ==
    LET pinnedToday == StaffIn(DayRows(h, d))
        avail(r) == {s \in W : /\ role[s] = r
                              /\ p[s] = DayPattern(d)
                              /\ s \notin pinnedToday}
    IN  IF \/ d \in staff_game_days(h)
           \/ COUNSELOR_ACTIVITY_JOB_ID \in JobsIn(DayRows(h, d))
           \/ avail(COUNSELOR_ROLE_ID) = {}
           \/ avail(JUNIOR_COUNSELOR_ROLE_ID) = {}
        THEN {<<>>}
        ELSE {<<c, j>> : c \in avail(COUNSELOR_ROLE_ID), j \in avail(JUNIOR_COUNSELOR_ROLE_ID)}

\* the locked rows of one day for a drawn pair
LockRows(d, pair) ==
    [i \in 1..Len(pair) |-> Row(d, pair[i], COUNSELOR_ACTIVITY_JOB_ID, "pre_assigned_locked")]

-----------------------------------------------------------------------------
(* Greedy Duty Filler: one day of assign_random_lunch_jobs *)

CONDITIONALLY_EXCLUDED_JOB_IDS ==
    {STAFF_GAME_JOB_ID, TIE_DYE_JOB_ID, OBSTACLE_COURSE_JOB_ID, TALLYING_SCORES_JOB_ID}

RECURSIVE Perms(_)
Perms(S) ==
    IF S = {} THEN {<<>>}
    ELSE UNION {{<<x>> \o q : q \in Perms(S \ {x})} : x \in S}

LockedOn(L, d) == {x[1] : x \in {y \in L : y[2] = d}}

jobs_to_exclude(h, d) == CONDITIONALLY_EXCLUDED_JOB_IDS \ JobsIn(DayRows(h, d))

\* the duties left for the fill on day d, the designated duty's normal target
\* reduced by the number of locked staff (lines 1647-1663)
remaining_jobs(cat, h, L, d) ==
    LET rem0 == SelectSeq(cat, LAMBDA j :
                    j.id \notin (JobsIn(DayRows(h, d)) \cup jobs_to_exclude(h, d)))
        pre  == Cardinality(LockedOn(L, d))
    IN  [i \in 1..Len(rem0) |->
            IF pre > 0 /\ rem0[i].id = COUNSELOR_ACTIVITY_JOB_ID
            THEN [rem0[i] EXCEPT !.normal = Max2(0, rem0[i].normal - pre)]
            ELSE rem0[i]]

\* (mutant of day_staff) the fill pool keeps the staff pinned or locked on the day
day_staff_with_pinned(p, W, h, L, d) ==
    {s \in W : p[s] = DayPattern(d)}

\* (mutant of day_staff) the fill pool keeps the staff locked on the day
day_staff_with_locked(p, W, h, L, d) ==
    {s \in W \ StaffIn(DayRows(h, d)) : p[s] = DayPattern(d)}

\* the staff of the day's pattern without a pinned or locked row on the day
day_staff(p, W, h, L, d) ==
    {s \in W \ (StaffIn(DayRows(h, d)) \cup LockedOn(L, d)) : p[s] = DayPattern(d)}

\* the fallback when every duty is pinned (lines 1681-1685)
FillJobs(cat, h, L, d, pool) ==
    IF Len(remaining_jobs(cat, h, L, d)) = 0 /\ pool # {}
    THEN SelectSeq(cat, LAMBDA j : j.id \notin jobs_to_exclude(h, d))
    ELSE remaining_jobs(cat, h, L, d)

NormalOf(j) == IF j.normal = None THEN 1 ELSE j.normal

\* Phase 1: the slots of the normal targets, in catalog order
NormalSlots(js) == Concat([i \in 1..Len(js) |-> [k \in 1..NormalOf(js[i]) |-> js[i].id]])

\* stable sort of the overflow duties by priority
RECURSIVE SortByPriority(_)
SortByPriority(js) ==
    IF js = <<>> THEN <<>>
    ELSE LET i == CHOOSE a \in 1..Len(js) :
                     \A b \in 1..Len(js) :
                         \/ js[a].priority < js[b].priority
                         \/ js[a].priority = js[b].priority /\ a <= b
         IN  <<js[i]>> \o SortByPriority(SubSeq(js, 1, i - 1) \o SubSeq(js, i + 1, Len(js)))

\* (mutant of SubstituteRows) the staff left after the duties are full get no row
SubstituteRowsNone(d, rest) == <<>>

SubstituteRows(d, rest) == [i \in 1..Len(rest) |-> Row(d, rest[i], None, "substitute")]

\* Phase 2: cycle over the overflow duties, one staff member per duty per
\* cycle while the duty's counter is below its maximum; a cycle that places
\* nobody sends the rest to substitute (lines 1732-1772)
RECURSIVE Overflow(_, _, _, _, _, _)
Overflow(d, rest, ojobs, cnt, k, assignedThisRound) ==
    IF rest = <<>> THEN <<>>
    ELSE IF k > Len(ojobs)
         THEN IF assignedThisRound THEN Overflow(d, rest, ojobs, cnt, 1, FALSE)
              ELSE SubstituteRows(d, rest)
    ELSE IF cnt[ojobs[k].id] < ojobs[k].max
         THEN <<Row(d, Head(rest), ojobs[k].id, "overflow")>>
              \o Overflow(d, Tail(rest), ojobs,
                          [cnt EXCEPT ![ojobs[k].id] = @ + 1], k + 1, TRUE)
         ELSE Overflow(d, rest, ojobs, cnt, k + 1, assignedThisRound)

\* the fill rows of day d for one shuffle of the pool
FillDayRows(cat, h, L, d, order) ==
    LET js     == FillJobs(cat, h, L, d, Range(order))
        slots  == NormalSlots(js)
        n1     == Min2(Len(slots), Len(order))
        normal == [k \in 1..n1 |-> Row(d, order[k], slots[k], "normal")]
        cnt    == [id \in CatalogIds(js) |->
                      Cardinality({k \in 1..n1 : slots[k] = id})]
        rest   == SubSeq(order, n1 + 1, Len(order))
        ojobs  == SortByPriority(SelectSeq(js, LAMBDA j :
                                     j.priority # None /\ j.max # None))
    IN  normal \o (IF ojobs # <<>>
                   THEN Overflow(d, rest, ojobs, cnt, 1, FALSE)
                   ELSE SubstituteRows(d, rest))

-----------------------------------------------------------------------------
(* Invariant Validators *)

MIN_TIE_DYE_STAFF == 2
PROTECTED_FROM_TIE_DYE ==
    {ARTS_CRAFTS_JOB_ID, CARD_TRADING_JOB_ID, COUNSELOR_ACTIVITY_JOB_ID, STAFF_GAME_JOB_ID}
PROTECTED_JOB_IDS ==
    {ARTS_CRAFTS_JOB_ID, CARD_TRADING_JOB_ID, TIE_DYE_JOB_ID, STAFF_GAME_JOB_ID,
     OBSTACLE_COURSE_JOB_ID, TALLYING_SCORES_JOB_ID}

\* the distinct days of a table, in order of first appearance
RECURSIVE UniqueDays(_)
UniqueDays(rs) ==
    IF rs = <<>> THEN <<>>
    ELSE <<Head(rs).day>> \o UniqueDays(SelectSeq(Tail(rs), LAMBDA r : r.day # Head(rs).day))

\* df.loc[(day, staff in S), job] = j
Reassign(rs, d, S, j) ==
    [i \in 1..Len(rs) |->
        IF rs[i].day = d /\ rs[i].staff \in S THEN [rs[i] EXCEPT !.job = j] ELSE rs[i]]

\* the duty of the first row of staff member s in a table
FirstJob(rs, s) == (SelectSeq(rs, LAMBDA r : r.staff = s))[1].job

\* groupby(job_id).size(): rows without a duty id are not counted
JobCount(rs, j) ==
    IF j = None THEN 0 ELSE Cardinality({i \in 1..Len(rs) : rs[i].job = j})

\* (mutant of TieDyeDay) the repair pulls staff from any duty but the special
\* duty itself
TieDyeDayFromAnyDuty(rs, p, W, L, d) ==
    LET current   == Len(SelectSeq(DayRows(rs, d), LAMBDA r : r.job = TIE_DYE_JOB_ID))
        needed    == MIN_TIE_DYE_STAFF - current
        swappable == SelectSeq(DayRows(rs, d), LAMBDA r : r.job # TIE_DYE_JOB_ID)
        available == SeqOfSet({s \in W : /\ s \in StaffIn(swappable)
                                         /\ p[s] = DayPattern(d)
                                         /\ s \notin LockedOn(L, d)})
    IN  IF current >= MIN_TIE_DYE_STAFF \/ available = <<>> THEN rs
        ELSE Reassign(rs, d, Range(Take(available, needed)), TIE_DYE_JOB_ID)

\* one day of ensure_minimum_tie_dye_staff (lines 914-1057)
TieDyeDay(rs, p, W, L, d) ==
    LET current   == Len(SelectSeq(DayRows(rs, d), LAMBDA r : r.job = TIE_DYE_JOB_ID))
        needed    == MIN_TIE_DYE_STAFF - current
        swappable == SelectSeq(DayRows(rs, d), LAMBDA r :
                         r.job \notin PROTECTED_FROM_TIE_DYE /\ r.job # TIE_DYE_JOB_ID)
        available == SeqOfSet({s \in W : /\ s \in StaffIn(swappable)
                                         /\ p[s] = DayPattern(d)
                                         /\ s \notin LockedOn(L, d)})
        first     == Take(SelectSeq(available, LAMBDA s :
                              JobCount(swappable, FirstJob(swappable, s)) > 1), needed)
        second    == IF Len(first) < needed
                     THEN first \o Take(SelectSeq(available, LAMBDA s : s \notin Range(first)),
                                        needed - Len(first))
                     ELSE first
    IN  IF current >= MIN_TIE_DYE_STAFF \/ available = <<>> THEN rs
        ELSE Reassign(rs, d, Range(second), TIE_DYE_JOB_ID)

RECURSIVE TieDyeDays(_, _, _, _, _)
TieDyeDays(rs, p, W, L, ds) ==
    IF ds = <<>> THEN rs
    ELSE TieDyeDays(TieDyeDay(rs, p, W, L, Head(ds)), p, W, L, Tail(ds))

ensure_minimum_tie_dye_staff(rs, p, W, tdd, L) ==
    LET td == SelectSeq(rs, LAMBDA r : r.job = TIE_DYE_JOB_ID)
    IN  IF td = <<>> /\ tdd # <<>>
        THEN TieDyeDays(rs, p, W, L, SelectSeq(tdd, LAMBDA d : d \in DaySet))
        ELSE IF td = <<>> THEN rs
        ELSE TieDyeDays(rs, p, W, L, UniqueDays(td))

\* one day of ensure_counselor_on_counselor_activity (lines 704-854)
RoleMixDay(rs, p, W, d) ==
    LET caStaff   == {s \in W : s \in StaffIn(SelectSeq(DayRows(rs, d), LAMBDA r :
                                         r.job = COUNSELOR_ACTIVITY_JOB_ID))}
        cCount    == Cardinality(OfRole(caStaff, COUNSELOR_ROLE_ID))
        jCount    == Cardinality(OfRole(caStaff, JUNIOR_COUNSELOR_ROLE_ID))
        needed    == IF cCount = 0 THEN COUNSELOR_ROLE_ID ELSE JUNIOR_COUNSELOR_ROLE_ID
        excess    == IF cCount = 0 THEN JUNIOR_COUNSELOR_ROLE_ID ELSE COUNSELOR_ROLE_ID
        swappable == SelectSeq(DayRows(rs, d), LAMBDA r :
                         r.job # COUNSELOR_ACTIVITY_JOB_ID /\ r.job \notin PROTECTED_JOB_IDS)
        cands     == SeqOfSet({s \in W : /\ s \in StaffIn(swappable)
                                         /\ role[s] = needed
                                         /\ p[s] = DayPattern(d)})
        cnt(s)    == JobCount(swappable, FirstJob(swappable, s))
        multi     == SelectSeq(cands, LAMBDA s : cnt(s) > 1)
        \* first pass: the first candidate on the most populated multi-staff duty
        best      == IF multi # <<>>
                     THEN (SelectSeq(multi, LAMBDA s :
                               \A u \in Range(multi) : cnt(s) >= cnt(u)))[1]
                     ELSE cands[1]
        outgoing  == OfRole(caStaff, excess)
    IN  IF cCount >= 1 /\ cCount <= 2 /\ jCount >= 1 /\ jCount <= 2 THEN rs
        ELSE IF cCount # 0 /\ jCount # 0 THEN rs
        ELSE IF cands = <<>> \/ outgoing = {} THEN rs
        ELSE Reassign(Reassign(rs, d, {MinOf(outgoing)}, FirstJob(swappable, best)),
                      d, {best}, COUNSELOR_ACTIVITY_JOB_ID)

RECURSIVE RoleMixDays(_, _, _, _)
RoleMixDays(rs, p, W, ds) ==
    IF ds = <<>> THEN rs
    ELSE RoleMixDays(RoleMixDay(rs, p, W, Head(ds)), p, W, Tail(ds))

ensure_counselor_on_counselor_activity(rs, p, W) ==
    RoleMixDays(rs, p, W,
                UniqueDays(SelectSeq(rs, LAMBDA r : r.job = COUNSELOR_ACTIVITY_JOB_ID)))

\* the id under which ensure_pattern_based_jobs_coverage looks for the
\* role-mix duty (lines 1177, 1267, 1276, 1300)
PATTERN_JOBS_ROLE_MIX_ID == 1077

\* the duties a replacement is never recruited from (line 1177)
PATTERN_JOBS_PROTECTED_IDS == {TIE_DYE_JOB_ID, PATTERN_JOBS_ROLE_MIX_ID, STAFF_GAME_JOB_ID}

\* the paired-recurring duties, in the order the validator visits them
PATTERN_BASED_JOBS == <<ARTS_CRAFTS_JOB_ID, CARD_TRADING_JOB_ID>>

\* the days without an all-staff row, in the order of the day table (line 1110)
working_days(rs) ==
    SelectSeq(Days, LAMBDA d : \A i \in 1..Len(rs) :
                                  ~(rs[i].day = d /\ rs[i].job = STAFF_GAME_JOB_ID))

PatternDays(ds, P) == SelectSeq(ds, LAMBDA d : DayPattern(d) = P)

\* the staff on duty j on day d
OnJob(rs, d, j) == StaffIn(SelectSeq(DayRows(rs, d), LAMBDA r : r.job = j))

\* position of a day name in alphabetical order, for sorted(...)[0]
DayNameRank(d) ==
    CASE d = "monday" -> 1 [] d = "thursday" -> 2 [] d = "tuesday" -> 3 [] OTHER -> 4

\* the staff ids of a table, in order of first appearance (.unique())
RECURSIVE UniqueStaff(_)
UniqueStaff(rs) ==
    IF rs = <<>> THEN <<>>
    ELSE <<Head(rs).staff>>
         \o UniqueStaff(SelectSeq(Tail(rs), LAMBDA r : r.staff # Head(rs).staff))

\* put staff member s on duty j on day d: their rows of the day are rewritten,
\* or a pinned row is appended when they have none.  With keep set, rows are
\* left alone when the first of them is already on j (line 1210).
AssignOnDay(rs, d, s, j, keep) ==
    LET mine == SelectSeq(DayRows(rs, d), LAMBDA r : r.staff = s)
    IN  IF mine = <<>> THEN Append(rs, Row(d, s, j, "hardcoded"))
        ELSE IF keep /\ mine[1].job = j THEN rs
        ELSE Reassign(rs, d, {s}, j)

RECURSIVE AssignOnDays(_, _, _, _, _)
AssignOnDays(rs, ds, s, j, keep) ==
    IF ds = <<>> THEN rs
    ELSE AssignOnDays(AssignOnDay(rs, Head(ds), s, j, keep), Tail(ds), s, j, keep)

\* the gap repair of one pattern (lines 1125-1230); ja is the duty's rows as
\* they were when the validator reached the duty.  The order in which the
\* missing days are visited only decides the order of appended rows.
FillPatternGap(rs, ja, p, W, j, P, wd) ==
    LET missing   == SelectSeq(PatternDays(wd, P), LAMBDA d :
                         \A i \in 1..Len(ja) : ja[i].day # d)
        existing  == SelectSeq(UniqueStaff(ja), LAMBDA s : s \in W /\ p[s] = P)
        first_day == CHOOSE d \in Range(missing) :
                         \A e \in Range(missing) : DayNameRank(d) <= DayNameRank(e)
        swappable == SelectSeq(DayRows(rs, first_day), LAMBDA r :
                         r.job \notin PATTERN_JOBS_PROTECTED_IDS)
        available == SeqOfSet({s \in W : s \in StaffIn(swappable) /\ p[s] = P})
    IN  IF missing = <<>> THEN rs
        ELSE IF existing # <<>> THEN AssignOnDays(rs, missing, existing[1], j, FALSE)
        ELSE IF available = <<>> THEN rs
        ELSE AssignOnDays(rs, PatternDays(wd, P), available[1], j, TRUE)

\* staff with a row on the duty the validator takes for the role-mix duty
OnValidatorRoleMix(rs, s) ==
    \E i \in 1..Len(rs) : rs[i].staff = s /\ rs[i].job = PATTERN_JOBS_ROLE_MIX_ID

\* one day of the standardisation to staff member m (lines 1289-1327)
StandardiseDay(rs, d, j, m) ==
    LET current == OnJob(rs, d, j)
        leaving == {s \in current : ~OnValidatorRoleMix(rs, s)}
        cleared == [i \in 1..Len(rs) |->
                       IF rs[i].day = d /\ rs[i].staff \in leaving /\ rs[i].job = j
                       THEN [rs[i] EXCEPT !.job = None] ELSE rs[i]]
    IN  IF m \in current THEN rs ELSE Reassign(cleared, d, {m}, j)

RECURSIVE StandardiseDays(_, _, _, _)
StandardiseDays(rs, ds, j, m) ==
    IF ds = <<>> THEN rs
    ELSE StandardiseDays(StandardiseDay(rs, Head(ds), j, m), Tail(ds), j, m)

\* the consistency pass of one pattern (lines 1232-1327): the most common
\* assignee not on the validator's role-mix duty, ties broken by the order of
\* insertion into the counter (day order, then the iteration order of a set
\* of small integers, which is ascending)
StandardisePattern(rs, j, P, wd) ==
    LET pd        == PatternDays(wd, P)
        ids       == UNION {OnJob(rs, d, j) : d \in Range(pd)}
        count(s)  == Cardinality({k \in 1..Len(pd) : s \in OnJob(rs, pd[k], j)})
        firstD(s) == MinOf({k \in 1..Len(pd) : s \in OnJob(rs, pd[k], j)})
        before(a, b) == \/ count(a) > count(b)
                        \/ count(a) = count(b) /\ firstD(a) < firstD(b)
                        \/ count(a) = count(b) /\ firstD(a) = firstD(b) /\ a <= b
        eligible  == {s \in ids : ~OnValidatorRoleMix(rs, s)}
        chosen    == CHOOSE a \in eligible : \A b \in eligible : before(a, b)
    IN  IF Len(pd) <= 1 \/ \A d \in Range(pd) : OnJob(rs, d, j) = OnJob(rs, pd[1], j) THEN rs
        ELSE IF eligible = {} THEN rs
        ELSE StandardiseDays(rs, pd, j, chosen)

\* one paired-recurring duty (lines 1092-1329)
PatternJobCoverage(rs, p, W, j) ==
    LET ja == SelectSeq(rs, LAMBDA r : r.job = j)
        wd == working_days(rs)
        g1 == FillPatternGap(rs, ja, p, W, j, "A", wd)
        g2 == FillPatternGap(g1, ja, p, W, j, "B", wd)
    IN  IF ja = <<>> THEN rs
        ELSE StandardisePattern(StandardisePattern(g2, j, "A", wd), j, "B", wd)

ensure_pattern_based_jobs_coverage(rs, p, W) ==
    PatternJobCoverage(PatternJobCoverage(rs, p, W, PATTERN_BASED_JOBS[1]), p, W,
                       PATTERN_BASED_JOBS[2])

-----------------------------------------------------------------------------
(* Actions: the steps of assign_random_lunch_jobs *)

\* pre_assign_counselor_activity (line 1612): one random pair per day
PreAssign ==
    /\ pc = "balanced"
    /\ \E l1 \in LockChoices(pat, work, hard, Days[1]),
          l2 \in LockChoices(pat, work, hard, Days[2]),
          l3 \in LockChoices(pat, work, hard, Days[3]),
          l4 \in LockChoices(pat, work, hard, Days[4]) :
           LET ls == <<l1, l2, l3, l4>>
           IN  /\ rows' = Concat([i \in 1..4 |-> LockRows(Days[i], ls[i])])
               /\ locked' = UNION {{<<ls[i][k], Days[i]>> : k \in 1..Len(ls[i])} : i \in 1..4}
    /\ dayIdx' = 1
    /\ pc' = "fill"
    /\ UNCHANGED <<staff, role, group, pat, cfg, work, hard, pinned, jobs, week,
                   configs, gmap, outPat, prev, prevRows>>

\* one iteration of the day loop (lines 1619-1798): a random shuffle of the
\* pool, then the normal and overflow phases
FillDay ==
    /\ pc = "fill"
    /\ LET d == Days[dayIdx]
       IN  IF d \in staff_game_days(hard)
           THEN rows' = rows
           ELSE \E order \in Perms(day_staff(pat, work, hard, locked, d)) :
                    rows' = rows \o FillDayRows(jobs, hard, locked, d, order)
    /\ IF dayIdx < Len(Days)
       THEN dayIdx' = dayIdx + 1 /\ pc' = pc
       ELSE dayIdx' = dayIdx /\ pc' = "fill_done"
    /\ UNCHANGED <<staff, role, group, pat, cfg, work, hard, pinned, locked, jobs,
                   week, configs, gmap, outPat, prev, prevRows>>

\* the pinned table is put in front of the locked and fill rows (lines 1800-1805)
Combine ==
    /\ pc = "fill_done"
    /\ rows' = hard \o rows
    /\ prevRows' = rows
    /\ pc' = "combined"
    /\ UNCHANGED <<staff, role, group, pat, cfg, work, hard, pinned, locked, jobs,
                   week, configs, gmap, outPat, prev, dayIdx>>

\* the minimum-headcount repair and the return (lines 1814-1866)
MinimumTieDye ==
    /\ pc = "combined"
    /\ rows' = ensure_minimum_tie_dye_staff(rows, pat, work, cfg.tdd, locked)
    /\ prevRows' = rows
    /\ pc' = "returned"
    /\ UNCHANGED <<staff, role, group, pat, cfg, work, hard, pinned, locked, jobs,
                   week, configs, gmap, outPat, prev, dayIdx>>

\* the role-mix validator applied to the returned table, and then to its
\* own output
ValidateRoleMix ==
    /\ pc \in {"returned", "validated"}
    /\ rows' = ensure_counselor_on_counselor_activity(rows, pat, work)
    /\ prevRows' = rows
    /\ pc' = IF pc = "returned" THEN "validated" ELSE "revalidated"
    /\ UNCHANGED <<staff, role, group, pat, cfg, work, hard, pinned, locked, jobs,
                   week, configs, gmap, outPat, prev, dayIdx>>

\* the paired-duty validator applied to the returned table
ValidatePatternJobs ==
    /\ pc = "returned"
    /\ rows' = ensure_pattern_based_jobs_coverage(rows, pat, work)
    /\ prevRows' = rows
    /\ pc' = "pattern_validated"
    /\ UNCHANGED <<staff, role, group, pat, cfg, work, hard, pinned, locked, jobs,
                   week, configs, gmap, outPat, prev, dayIdx>>

-----------------------------------------------------------------------------
(* Specification of the whole single-week pipeline with the fill *)

\* staff in the roster of the fill specification
FillStaff == 4

\* duty catalogs, in id order; every special duty is present
RoomyCatalog ==
    <<JobInfo(ARTS_CRAFTS_JOB_ID, 1, 1, None, None),
      JobInfo(COUNSELOR_ACTIVITY_JOB_ID, 2, 2, 3, 2),
      JobInfo(CARD_TRADING_JOB_ID, 1, 1, None, None),
      JobInfo(GENERAL_JOB_ID, 1, 1, 2, 1),
      JobInfo(TIE_DYE_JOB_ID, 2, 2, None, None),
      JobInfo(STAFF_GAME_JOB_ID, 0, 0, None, None)>>

TightCatalog ==
    <<JobInfo(ARTS_CRAFTS_JOB_ID, 0, 0, None, None),
      JobInfo(COUNSELOR_ACTIVITY_JOB_ID, 1, 1, 2, 1),
      JobInfo(CARD_TRADING_JOB_ID, 0, 0, None, None),
      JobInfo(GENERAL_JOB_ID, 1, 1, 1, 2),
      JobInfo(TIE_DYE_JOB_ID, 0, 0, None, None),
      JobInfo(STAFF_GAME_JOB_ID, 0, 0, None, None)>>

\* one free-form pin of any staff member to the designated or an ordinary duty
SinglePinConfigs(n) ==
    {[EmptyConfig EXCEPT !.specific = <<Pin(s, j, d)>>] :
        <<s, j, d>> \in {x \in (1..n) \X {COUNSELOR_ACTIVITY_JOB_ID, GENERAL_JOB_ID}
                                       \X {"monday", "tuesday"} :
                             x[2] = COUNSELOR_ACTIVITY_JOB_ID <=> x[3] = "monday"}}

\* override sets in which a staff member sits in two categories, an all-staff
\* day, a roster addition, and special days with and without a staff list
MixedConfigs(n) ==
    {[EmptyConfig EXCEPT !.pbj = <<Job(ARTS_CRAFTS_JOB_ID, <<1, y>>)>>,
                         !.specific = <<Pin(1, GENERAL_JOB_ID, d)>>] :
        <<y, d>> \in (2..n) \X {"monday", "tuesday"}}
    \cup {[EmptyConfig EXCEPT !.sgd = <<"monday">>,
                              !.specific = <<Pin(s, GENERAL_JOB_ID, "tuesday")>>] : s \in 1..n}
    \cup {[EmptyConfig EXCEPT !.add = {n + 1}, !.rem = R] : R \in {{}, {1}}}
    \cup {[EmptyConfig EXCEPT !.tdd = <<"tuesday", "wednesday">>, !.tds = tds] :
             tds \in {<<>>, <<1>>, <<1, 2>>, <<2, n>>}}

FillConfigs == {EmptyConfig} \cup SinglePinConfigs(FillStaff) \cup MixedConfigs(FillStaff)

InitFill ==
    /\ pc = "start"
    /\ staff = 1..FillStaff
    /\ \E r \in Rosters(FillStaff) : role = r.role /\ group = r.group
    /\ cfg \in FillConfigs
    /\ jobs \in {RoomyCatalog, TightCatalog}
    /\ pat = [s \in 1..(FillStaff + 1) |-> "A"]
    /\ prev = pat
    /\ work = staff
    /\ hard = <<>>
    /\ pinned = {}
    /\ week = 0 /\ configs = <<>> /\ gmap = <<>> /\ outPat = <<>>
    /\ rows = <<>> /\ locked = {} /\ dayIdx = 0 /\ prevRows = <<>>

NextFill ==
    \/ AssignPatterns
    \/ ProcessOverrides
    \/ CoverageFix
    \/ BalanceGroups
    \/ BalanceRoles
    \/ PreAssign
    \/ FillDay
    \/ Combine
    \/ MinimumTieDye
    \/ ValidateRoleMix

SpecFill == InitFill /\ [][NextFill]_vars

-----------------------------------------------------------------------------
(* Claims about the fill and the validators, checked under SpecFill *)

FillKinds == {"normal", "overflow", "substitute"}
PinnedKinds == {"hardcoded", "pre_assigned_locked"}

\* C1: in the table returned by assign_random_lunch_jobs no (day, staff)
\* pair appears in more than one row.
C1_DayStaffUnique ==
    pc = "returned" =>
        \A i \in 1..Len(rows) : \A k \in 1..Len(rows) :
            (rows[i].day = rows[k].day /\ rows[i].staff = rows[k].staff) => i = k

\* the override set named the same staff member twice on one day, and the
\* returned table holds the first of the two pinned rows next to fill rows
C1_Witness ==
    /\ pc = "returned"
    /\ cfg.pbj # <<>> /\ cfg.specific # <<>>
    /\ \E i \in 1..Len(rows) : rows[i].kind = "hardcoded" /\ rows[i].job = ARTS_CRAFTS_JOB_ID
                               /\ rows[i].staff = cfg.specific[1].staff
                               /\ rows[i].day = cfg.specific[1].day
    /\ \E i \in 1..Len(rows) : rows[i].kind \in FillKinds

\* C7: when the fill phases have finished (before the validators run), every
\* row of the pinned table is present with the same day, staff and duty, and
\* no staff member has a fill row on a day on which they hold a pinned or a
\* locked row.
C7_FillKeepsPinned ==
    pc = "combined" =>
        /\ \A i \in 1..Len(hard) : \E k \in 1..Len(rows) : rows[k] = hard[i]
        /\ \A i \in 1..Len(rows) : \A k \in 1..Len(rows) :
               (/\ rows[i].kind \in FillKinds
                /\ rows[k].kind \in PinnedKinds
                /\ rows[k].day = rows[i].day) => rows[k].staff # rows[i].staff

\* on one day the table holds a pinned row, a locked row and a fill row
C7_Witness ==
    /\ pc = "combined"
    /\ \E d \in DaySet :
           /\ \E i \in 1..Len(rows) : rows[i].day = d /\ rows[i].kind = "hardcoded"
           /\ \E i \in 1..Len(rows) : rows[i].day = d /\ rows[i].kind = "pre_assigned_locked"
           /\ \E i \in 1..Len(rows) : rows[i].day = d /\ rows[i].kind \in FillKinds

\* C8: running ensure_counselor_on_counselor_activity on the table it has
\* just returned changes no row.
C8_RoleMixIdempotent ==
    pc = "revalidated" => rows = prevRows

\* the roster staff on the designated role-mix duty on day d in table rs
OnRoleMix(rs, d) ==
    {s \in work : \E i \in 1..Len(rs) : /\ rs[i].day = d /\ rs[i].staff = s
                                        /\ rs[i].job = COUNSELOR_ACTIVITY_JOB_ID}

\* a staff member of role r and of the day's pattern who holds a duty other
\* than the role-mix duty and the protected duties on day d in table rs
CandidateOnOpenDuty(rs, d, r) ==
    \E i \in 1..Len(rs) :
        /\ rs[i].day = d
        /\ rs[i].staff \in work
        /\ role[rs[i].staff] = r
        /\ pat[rs[i].staff] = DayPattern(d)
        /\ rs[i].job \notin ({None, COUNSELOR_ACTIVITY_JOB_ID} \cup PROTECTED_JOB_IDS)

\* C12: after ensure_counselor_on_counselor_activity, on every day on which
\* the role-mix duty has staff, lacks a role, and a same-pattern staff member
\* of the lacking role sits on a non-protected duty, the role-mix duty holds
\* between 1 and 2 staff of each role.  (The claim's second half, about where
\* the incoming staff member is taken from, is not needed to refute it.)
C12_RoleMixOneOrTwoOfEachRole ==
    pc = "validated" =>
        \A d \in DaySet : \A r \in Roles :
            (/\ OnRoleMix(prevRows, d) # {}
             /\ OfRole(OnRoleMix(prevRows, d), r) = {}
             /\ CandidateOnOpenDuty(prevRows, d, r))
                => \A q \in Roles :
                       Cardinality(OfRole(OnRoleMix(rows, d), q)) \in 1..2

\* C25: every row locked by pre_assign_counselor_activity is in the table
\* returned by assign_random_lunch_jobs, with its day, staff and the role-mix
\* duty, and it is the only row of that staff member on that day.
C25_LockedRowsReturned ==
    pc = "returned" =>
        \A x \in locked :
            /\ \E i \in 1..Len(rows) :
                   rows[i] = Row(x[2], x[1], COUNSELOR_ACTIVITY_JOB_ID, "pre_assigned_locked")
            /\ Cardinality({i \in 1..Len(rows) : rows[i].day = x[2] /\ rows[i].staff = x[1]}) = 1

\* a day with a locked pair on which the fill wrote rows and the
\* minimum-headcount repair moved a staff member
C25_Witness ==
    /\ pc = "returned"
    /\ \E d \in DaySet :
           /\ \E s \in work : <<s, d>> \in locked
           /\ \E i \in 1..Len(rows) : rows[i].day = d /\ rows[i].kind \in FillKinds
           /\ \E i \in 1..Len(rows) : rows[i].day = d /\ rows[i] # prevRows[i]

\* the number of rows of the special duty on day d in table rs
TieDyeCount(rs, d) == Len(SelectSeq(DayRows(rs, d), LAMBDA r : r.job = TIE_DYE_JOB_ID))

\* the days on which the repair looks at the special duty: the days of its
\* rows, or the configured days when it has no row at all
TieDyeRepairDays(rs, tdd) ==
    IF \E i \in 1..Len(rs) : rs[i].job = TIE_DYE_JOB_ID
    THEN {d \in DaySet : TieDyeCount(rs, d) > 0}
    ELSE Range(tdd) \cap DaySet

\* roster staff of the day's pattern, not locked on day d, holding a duty
\* that is neither protected nor the special duty
TieDyeEligible(rs, d) ==
    {s \in work : /\ pat[s] = DayPattern(d)
                  /\ <<s, d>> \notin locked
                  /\ \E i \in 1..Len(rs) :
                         /\ rs[i].day = d /\ rs[i].staff = s
                         /\ rs[i].job \notin (PROTECTED_FROM_TIE_DYE \cup {TIE_DYE_JOB_ID, None})}

\* C18: after ensure_minimum_tie_dye_staff, the special duty has at least 2
\* staff on every day it runs on which enough same-pattern, non-locked staff
\* on non-protected duties were there to cover the shortfall; and no row on a
\* protected duty and no row of a locked (staff, day) is changed.
C18_TieDyeMinimumAndProtection ==
    pc = "returned" =>
        /\ \A d \in TieDyeRepairDays(prevRows, cfg.tdd) :
               Cardinality(TieDyeEligible(prevRows, d))
                       >= MIN_TIE_DYE_STAFF - TieDyeCount(prevRows, d)
                   => TieDyeCount(rows, d) >= MIN_TIE_DYE_STAFF
        /\ \A i \in 1..Len(prevRows) :
               (\/ prevRows[i].job \in PROTECTED_FROM_TIE_DYE
                \/ <<prevRows[i].staff, prevRows[i].day>> \in locked)
                   => rows[i] = prevRows[i]

\* the repair has pulled staff onto the special duty on a day on which the
\* table also holds a locked pair and a row on a protected duty
C18_Witness ==
    /\ pc = "returned"
    /\ \E d \in DaySet :
           /\ TieDyeCount(prevRows, d) < MIN_TIE_DYE_STAFF
           /\ TieDyeCount(rows, d) >= MIN_TIE_DYE_STAFF
           /\ \E s \in work : <<s, d>> \in locked
           /\ \E i \in 1..Len(prevRows) :
                  /\ prevRows[i].day = d
                  /\ prevRows[i].job \in PROTECTED_FROM_TIE_DYE

-----------------------------------------------------------------------------
(* Specification of the single-week pipeline on weeks with all-staff days *)

\* staff in the roster of the all-staff-day specification
GameStaff == 4

\* override sets with an all-staff day and, on that very day, a free-form
\* pin, a paired duty, a special-duty day or a changed roster
AllStaffConfigs(n) ==
    {[EmptyConfig EXCEPT !.sgd = <<"monday">>, !.specific = <<Pin(s, j, "monday")>>] :
        <<s, j>> \in (1..n) \X {GENERAL_JOB_ID, COUNSELOR_ACTIVITY_JOB_ID}}
    \cup {[EmptyConfig EXCEPT !.sgd = <<"monday">>,
                              !.pbj = <<Job(ARTS_CRAFTS_JOB_ID, <<1, y>>)>>] : y \in 2..n}
    \cup {[EmptyConfig EXCEPT !.sgd = <<"monday">>, !.tdd = <<"monday", "tuesday">>,
                              !.tds = tds] : tds \in {<<>>, <<1, 2>>, <<1, 2, 3>>}}
    \cup {[EmptyConfig EXCEPT !.sgd = <<"monday", "thursday">>, !.add = A, !.rem = R] :
             <<A, R>> \in {{}, {n + 1}} \X {{}, {1}}}
    \cup {[EmptyConfig EXCEPT !.sgd = <<"tuesday">>,
                              !.all_days = <<Job(GENERAL_JOB_ID, <<1, y>>)>>] : y \in 2..n}

InitAllStaff ==
    /\ pc = "start"
    /\ staff = 1..GameStaff
    /\ \E r \in Rosters(GameStaff) : role = r.role /\ group = r.group
    /\ cfg \in AllStaffConfigs(GameStaff)
    /\ jobs \in {RoomyCatalog, TightCatalog}
    /\ pat = [s \in 1..(GameStaff + 1) |-> "A"]
    /\ prev = pat
    /\ work = staff
    /\ hard = <<>>
    /\ pinned = {}
    /\ week = 0 /\ configs = <<>> /\ gmap = <<>> /\ outPat = <<>>
    /\ rows = <<>> /\ locked = {} /\ dayIdx = 0 /\ prevRows = <<>>

NextAllStaff ==
    \/ AssignPatterns
    \/ ProcessOverrides
    \/ CoverageFix
    \/ BalanceGroups
    \/ BalanceRoles
    \/ PreAssign
    \/ FillDay
    \/ Combine
    \/ MinimumTieDye

SpecAllStaff == InitAllStaff /\ [][NextAllStaff]_vars

\* C15: on every listed all-staff day, every staff member of the working
\* roster has exactly one row in the returned table and it is the all-staff
\* duty; no other pin displaced it, and the day's rows are the pinned rows
\* of that day, neither the locked pre-assignment, the fill nor the
\* minimum-headcount repair having added or changed one.
C15_AllStaffDayComplete ==
    pc = "returned" =>
        \A d \in Range(cfg.sgd) :
            /\ \A s \in work :
                   /\ Len(SelectSeq(rows, LAMBDA r : r.day = d /\ r.staff = s)) = 1
                   /\ \E i \in 1..Len(rows) : /\ rows[i].day = d /\ rows[i].staff = s
                                              /\ rows[i].job = STAFF_GAME_JOB_ID
            /\ DayRows(rows, d) = DayRows(hard, d)
            /\ DayRows(rows, d) = StaffGameRows(work, <<d>>)

\* a returned table of a week whose override set names, on the all-staff
\* day, a pin or a special-duty day, and whose other days were filled
C15_Witness ==
    /\ pc = "returned"
    /\ cfg.sgd # <<>>
    /\ \/ \E i \in 1..Len(cfg.specific) : cfg.specific[i].day \in Range(cfg.sgd)
       \/ \E i \in 1..Len(cfg.tdd) : cfg.tdd[i] \in Range(cfg.sgd) /\ cfg.tds # <<>>
    /\ \E i \in 1..Len(rows) : rows[i].kind \in FillKinds
    /\ \E i \in 1..Len(rows) : rows[i].kind = "pre_assigned_locked"

-----------------------------------------------------------------------------
(* Specification of the single-week pipeline followed by the paired-duty
   validator *)

\* staff in the roster of the paired-duty specification
PairedStaff == 4

\* override sets that leave a paired-recurring duty to the fill, give it one
\* staff member (so the days of the other pattern are gaps) or a pair, with
\* and without an all-staff day, or give each of the two paired-recurring
\* duties one staff member
PatternJobConfigs(n) ==
    {EmptyConfig}
    \cup {[EmptyConfig EXCEPT !.pbj = <<Job(ARTS_CRAFTS_JOB_ID, <<x>>)>>, !.sgd = g] :
             <<x, g>> \in (1..n) \X {<<>>, <<"thursday">>}}
    \cup PairConfigs(n)
    \cup {[EmptyConfig EXCEPT !.pbj = <<Job(ARTS_CRAFTS_JOB_ID, <<z[1]>>),
                                       Job(CARD_TRADING_JOB_ID, <<z[2]>>)>>] :
             z \in OrderedPairs(n)}

InitPatternJobs ==
    /\ pc = "start"
    /\ staff = 1..PairedStaff
    /\ \E r \in Rosters(PairedStaff) : role = r.role /\ group = r.group
    /\ cfg \in PatternJobConfigs(PairedStaff)
    /\ jobs \in {RoomyCatalog, TightCatalog}
    /\ pat = [s \in 1..(PairedStaff + 1) |-> "A"]
    /\ prev = pat
    /\ work = staff
    /\ hard = <<>>
    /\ pinned = {}
    /\ week = 0 /\ configs = <<>> /\ gmap = <<>> /\ outPat = <<>>
    /\ rows = <<>> /\ locked = {} /\ dayIdx = 0 /\ prevRows = <<>>

NextPatternJobs ==
    \/ AssignPatterns
    \/ ProcessOverrides
    \/ CoverageFix
    \/ BalanceGroups
    \/ BalanceRoles
    \/ PreAssign
    \/ FillDay
    \/ Combine
    \/ MinimumTieDye
    \/ ValidatePatternJobs

SpecPatternJobs == InitPatternJobs /\ [][NextPatternJobs]_vars

\* C19: every (day, staff) row that is on the role-mix duty (the duty the
\* pre-assignment locks its pair to) before ensure_pattern_based_jobs_coverage
\* runs is still on that duty afterwards.
C19_RoleMixRowsKept ==
    pc = "pattern_validated" =>
        \A i \in 1..Len(prevRows) :
            prevRows[i].job = COUNSELOR_ACTIVITY_JOB_ID
                => rows[i].job = COUNSELOR_ACTIVITY_JOB_ID

\* a staff member of pattern P already holds duty j somewhere in table rs
ExistingAssignee(rs, j, P) ==
    \E i \in 1..Len(rs) : rs[i].job = j /\ rs[i].staff \in work /\ pat[rs[i].staff] = P

\* on every working day of pattern P some staff member of that pattern holds
\* a duty that is neither protected, nor the role-mix duty, nor paired
ReplacementAvailable(rs, P) ==
    \A d \in Range(PatternDays(working_days(rs), P)) :
        \E i \in 1..Len(rs) :
            /\ rs[i].day = d /\ rs[i].staff \in work /\ pat[rs[i].staff] = P
            /\ rs[i].job \notin (PATTERN_JOBS_PROTECTED_IDS \cup Range(PATTERN_BASED_JOBS)
                                 \cup {COUNSELOR_ACTIVITY_JOB_ID})

\* duty j is staffed on every working day of pattern P, by the same set
SameStaffOnPattern(rs, j, P) ==
    \A d \in Range(PatternDays(working_days(rs), P)) :
        /\ OnJob(rs, d, j) # {}
        /\ \A e \in Range(PatternDays(working_days(rs), P)) : OnJob(rs, e, j) = OnJob(rs, d, j)

\* C17: after ensure_pattern_based_jobs_coverage, every paired-recurring duty
\* that had an assignment is staffed on every non-all-staff day of each
\* pattern, by the same set of staff on all days of the pattern, provided an
\* assignee of that pattern existed or a same-pattern staff member on a
\* non-protected duty was available on the pattern's days.
C17_PairedDutySameStaffPerPattern ==
    pc = "pattern_validated" =>
        \A j \in Range(PATTERN_BASED_JOBS) : \A P \in Patterns :
            (/\ \E i \in 1..Len(prevRows) : prevRows[i].job = j
             /\ ExistingAssignee(prevRows, j, P) \/ ReplacementAvailable(prevRows, P))
                => SameStaffOnPattern(rows, j, P)

-----------------------------------------------------------------------------
(* Specification of the fill of a single-duty catalog with a same-pattern pool *)

\* largest pool of the single-duty scenario
PoolStaff == 6

\* the one duty of the scenario: minRequired 2, normalTarget 3, maxAllowed 5,
\* priority 1.  It carries the designated duty's id, the only id with which
\* pre_assign_counselor_activity finds its catalog row (line 1495).
ScenarioCatalog == <<JobInfo(COUNSELOR_ACTIVITY_JOB_ID, 2, 3, 5, 1)>>

\* pools of n staff of pattern A, the first k of them counselors
InitPool ==
    /\ pc = "balanced"
    /\ \E n \in 1..PoolStaff : \E k \in 1..n :
           /\ staff = 1..n
           /\ role = [s \in 1..n |-> IF s <= k THEN COUNSELOR_ROLE_ID
                                     ELSE JUNIOR_COUNSELOR_ROLE_ID]
           /\ group = [s \in 1..n |-> s]
           /\ pat = [s \in 1..n |-> "A"]
    /\ prev = pat
    /\ work = staff
    /\ cfg = EmptyConfig
    /\ jobs = ScenarioCatalog
    /\ hard = <<>>
    /\ pinned = {}
    /\ week = 0 /\ configs = <<>> /\ gmap = <<>> /\ outPat = <<>>
    /\ rows = <<>> /\ locked = {} /\ dayIdx = 0 /\ prevRows = <<>>

NextPool ==
    \/ PreAssign
    \/ FillDay
    \/ Combine
    \/ MinimumTieDye

SpecPool == InitPool /\ [][NextPool]_vars

OnDuty(d, kinds) ==
    Cardinality({i \in 1..Len(rows) : /\ rows[i].day = d
                                      /\ rows[i].job = jobs[1].id
                                      /\ rows[i].kind \in kinds})
Substitutes(d) ==
    Cardinality({i \in 1..Len(rows) : rows[i].day = d /\ rows[i].kind = "substitute"})

\* C9: with a single duty and a pool of n same-pattern, non-pinned staff, on
\* each day of the pool's pattern the duty ends with min(n, maxAllowed) staff
\* and the other staff are substitutes; with normalTarget 3, maxAllowed 5 and
\* n = 6 the duty holds 3 staff before overflow, 5 after it, and one staff
\* member is the substitute.
C9_SingleDutyFill ==
    pc = "returned" =>
        \A d \in {"monday", "wednesday"} :
            LET n == Cardinality(work)
                m == Min2(n, jobs[1].max)
            IN  /\ OnDuty(d, PinnedKinds \cup FillKinds) = m
                /\ Substitutes(d) = n - m
                /\ n = PoolStaff =>
                       OnDuty(d, {"pre_assigned_locked", "normal"}) = jobs[1].normal

-----------------------------------------------------------------------------
(* Specification of the fill over a family of duty catalogs *)

\* largest roster of the catalog specification
CatalogStaff == 4

\* normal targets above the minimum, both duties open to overflow
LadderCatalog ==
    <<JobInfo(COUNSELOR_ACTIVITY_JOB_ID, 1, 2, 3, 2),
      JobInfo(GENERAL_JOB_ID, 1, 1, 2, 1)>>

\* duties without priority and maximum, one without a normal target
BareCatalog ==
    <<JobInfo(COUNSELOR_ACTIVITY_JOB_ID, 1, 1, None, None),
      JobInfo(GENERAL_JOB_ID, 1, None, None, None)>>

\* the role-mix duty alone, sized for its pair
PairCatalog == <<JobInfo(COUNSELOR_ACTIVITY_JOB_ID, 2, 2, 2, 1)>>

Catalogs == {LadderCatalog, BareCatalog, ScenarioCatalog, PairCatalog}

\* the pinned tables of the specification: none, or staff member 1 pinned on
\* monday to an ordinary duty or to the role-mix duty
CatalogPins == {<<>>, <<Pin(1, GENERAL_JOB_ID, "monday")>>,
                <<Pin(1, COUNSELOR_ACTIVITY_JOB_ID, "monday")>>}

\* balanced rosters of up to CatalogStaff staff, one group each, the first k
\* of them counselors, the patterns within the group tolerance, with the
\* pinned table of the override set
InitCatalog ==
    /\ pc = "balanced"
    /\ \E n \in 1..CatalogStaff : \E k \in 0..n :
           /\ staff = 1..n
           /\ role = [s \in 1..n |-> IF s <= k THEN COUNSELOR_ROLE_ID
                                     ELSE JUNIOR_COUNSELOR_ROLE_ID]
           /\ group = [s \in 1..n |-> s]
           /\ pat \in {p \in [1..n -> Patterns] : Skew(p, 1..n) <= GROUP_TOLERANCE}
    /\ prev = pat
    /\ work = staff
    /\ \E sp \in CatalogPins :
           /\ cfg = [EmptyConfig EXCEPT !.specific = sp]
           /\ hard = SpecificDayRows(sp)
           /\ pinned = {sp[i].staff : i \in 1..Len(sp)}
    /\ jobs \in Catalogs
    /\ week = 0 /\ configs = <<>> /\ gmap = <<>> /\ outPat = <<>>
    /\ rows = <<>> /\ locked = {} /\ dayIdx = 0 /\ prevRows = <<>>

NextCatalog ==
    \/ PreAssign
    \/ FillDay
    \/ Combine
    \/ MinimumTieDye

SpecCatalog == InitCatalog /\ [][NextCatalog]_vars

\* the number of rows on duty j on day d in table rs
DutyCount(rs, d, j) == Cardinality({i \in 1..Len(rs) : rs[i].day = d /\ rs[i].job = j})

\* the duties the fill hands out on day d
FillDuties(d) == FillJobs(jobs, hard, locked, d, day_staff(pat, work, hard, locked, d))

\* C21: in the fill of a day every remaining duty is brought up to its
\* minRequired before any duty goes beyond its minRequired: no two remaining
\* duties d1, d2 end the day with count(d1) > minRequired(d1) and
\* count(d2) < minRequired(d2).
C21_MinimumBeforeNormal ==
    pc = "combined" =>
        \A d \in DaySet \ staff_game_days(hard) :
            \A a \in 1..Len(FillDuties(d)) : \A b \in 1..Len(FillDuties(d)) :
                ~(/\ DutyCount(rows, d, FillDuties(d)[a].id) > FillDuties(d)[a].min
                  /\ DutyCount(rows, d, FillDuties(d)[b].id) < FillDuties(d)[b].min)

\* the rows of the given kinds on duty j on day d
KindCount(rs, d, j, kinds) ==
    Cardinality({i \in 1..Len(rs) : /\ rs[i].day = d /\ rs[i].job = j
                                    /\ rs[i].kind \in kinds})

\* the duties of day d that take part in the overflow phase
OverflowDuties(d) == SelectSeq(FillDuties(d), LAMBDA j : j.priority # None /\ j.max # None)

\* duty j holds its maximum on day d, all staff on it counted
AtMaximum(rs, d, j) == DutyCount(rs, d, j.id) >= j.max

\* C22: in the overflow phase the staff left after the normal fill go to the
\* remaining duties in ascending priority order, one per duty per cycle, and
\* only to duties whose count is below maxAllowed; a substitute row appears
\* only when every remaining duty (with a priority and a maximum) is at
\* maxAllowed.
C22_OverflowByPriorityUpToMaximum ==
    pc = "combined" =>
        \A d \in DaySet \ staff_game_days(hard) :
            LET od == OverflowDuties(d)
                over(j) == KindCount(rows, d, j.id, {"overflow"})
            IN  /\ \A i \in 1..Len(rows) :
                       (rows[i].day = d /\ rows[i].kind = "overflow")
                           => \E k \in 1..Len(od) : od[k].id = rows[i].job
                /\ \A k \in 1..Len(od) :
                       over(od[k]) > 0 => DutyCount(rows, d, od[k].id) <= od[k].max
                /\ \A a \in 1..Len(od) : \A b \in 1..Len(od) :
                       od[a].priority < od[b].priority =>
                           /\ ~AtMaximum(rows, d, od[a]) => over(od[a]) >= over(od[b])
                           /\ ~AtMaximum(rows, d, od[b]) => over(od[b]) >= over(od[a]) - 1
                /\ (\E i \in 1..Len(rows) : rows[i].day = d /\ rows[i].kind = "substitute")
                       => \A k \in 1..Len(od) : AtMaximum(rows, d, od[k])

\* C26: after the fill of a day, every remaining duty with a maxAllowed and
\* a normalTarget not above it holds at most maxAllowed staff, the locked
\* pair of the role-mix duty counted with the normal and overflow rows.
C26_TotalWithinMaximum ==
    pc = "combined" =>
        \A d \in DaySet \ staff_game_days(hard) :
            \A k \in 1..Len(jobs) :
                (/\ \E i \in 1..Len(FillDuties(d)) : FillDuties(d)[i].id = jobs[k].id
                 /\ jobs[k].max # None
                 /\ NormalOf(jobs[k]) <= jobs[k].max)
                    => KindCount(rows, d, jobs[k].id,
                                 {"pre_assigned_locked", "normal", "overflow"}) <= jobs[k].max

\* the fill rows of staff member s on day d
FillRowsOf(d, s) ==
    {i \in 1..Len(rows) : rows[i].day = d /\ rows[i].staff = s /\ rows[i].kind \in FillKinds}

\* C29: on every day that is not an all-staff day, every staff member of the
\* day's pattern without a pinned or locked row that day has exactly one fill
\* row (normal, overflow or substitute) for the day, whatever the catalog.
C29_OneFillRowPerPoolMember ==
    pc = "combined" =>
        \A d \in DaySet \ staff_game_days(hard) :
            \A s \in work :
                (/\ pat[s] = DayPattern(d)
                 /\ ~\E i \in 1..Len(hard) : hard[i].day = d /\ hard[i].staff = s
                 /\ <<s, d>> \notin locked)
                    => Cardinality(FillRowsOf(d, s)) = 1

\* a day whose duties are all pinned, the fill falling back on the whole
\* catalog, with a pool member sent to substitute
C29_Witness ==
    /\ pc = "combined"
    /\ \E d \in DaySet \ staff_game_days(hard) :
           /\ Len(remaining_jobs(jobs, hard, locked, d)) = 0
           /\ day_staff(pat, work, hard, locked, d) # {}
           /\ \E i \in 1..Len(rows) : rows[i].day = d /\ rows[i].kind = "substitute"

-----------------------------------------------------------------------------
(* Specification of the fill and the minimum-headcount repair on special days
   without a staff list *)

\* staff in the roster of the repair specification
RepairStaff == 4

\* an ordinary duty with a normal target of two
GeneralPairCatalog ==
    <<JobInfo(COUNSELOR_ACTIVITY_JOB_ID, 1, 1, 2, 1),
      JobInfo(GENERAL_JOB_ID, 1, 2, 3, 2),
      JobInfo(TIE_DYE_JOB_ID, 2, 2, None, None)>>

\* an ordinary duty that reaches two staff through the overflow only
GeneralOverflowCatalog ==
    <<JobInfo(COUNSELOR_ACTIVITY_JOB_ID, 1, 1, 1, 2),
      JobInfo(GENERAL_JOB_ID, 1, 1, 2, 1),
      JobInfo(TIE_DYE_JOB_ID, 2, 2, None, None)>>

RepairDays == {<<"monday">>, <<"tuesday">>, <<"monday", "tuesday">>}

InitRepair ==
    /\ pc = "balanced"
    /\ \E n \in 1..RepairStaff : \E k \in 0..n :
           /\ staff = 1..n
           /\ role = [s \in 1..n |-> IF s <= k THEN COUNSELOR_ROLE_ID
                                     ELSE JUNIOR_COUNSELOR_ROLE_ID]
           /\ group = [s \in 1..n |-> s]
           /\ pat \in {p \in [1..n -> Patterns] : Skew(p, 1..n) <= GROUP_TOLERANCE}
    /\ prev = pat
    /\ work = staff
    /\ \E tdd \in RepairDays : cfg = [EmptyConfig EXCEPT !.tdd = tdd]
    /\ hard = <<>>
    /\ pinned = {}
    /\ jobs \in {GeneralPairCatalog, GeneralOverflowCatalog}
    /\ week = 0 /\ configs = <<>> /\ gmap = <<>> /\ outPat = <<>>
    /\ rows = <<>> /\ locked = {} /\ dayIdx = 0 /\ prevRows = <<>>

NextRepair ==
    \/ PreAssign
    \/ FillDay
    \/ Combine
    \/ MinimumTieDye

SpecRepair == InitRepair /\ [][NextRepair]_vars

\* the rows of day d the repair may pull from (lines 945-948)
TieDyeSwappable(rs, d) ==
    SelectSeq(DayRows(rs, d), LAMBDA r :
        r.job \notin PROTECTED_FROM_TIE_DYE /\ r.job # TIE_DYE_JOB_ID)

\* the staff taken by the first pass of the repair on day d (lines 965-991)
TieDyeFirstPass(rs, p, W, L, d) ==
    LET current   == Len(SelectSeq(DayRows(rs, d), LAMBDA r : r.job = TIE_DYE_JOB_ID))
        available == SeqOfSet({s \in W : /\ s \in StaffIn(TieDyeSwappable(rs, d))
                                         /\ p[s] = DayPattern(d)
                                         /\ s \notin LockedOn(L, d)})
    IN  IF current >= MIN_TIE_DYE_STAFF THEN <<>>
        ELSE Take(SelectSeq(available, LAMBDA s :
                      JobCount(TieDyeSwappable(rs, d),
                               FirstJob(TieDyeSwappable(rs, d), s)) > 1),
                  MIN_TIE_DYE_STAFF - current)

\* C30: every duty the first pass of ensure_minimum_tie_dye_staff pulls a
\* staff member from still has at least one staff member on that day in the
\* table the repair returns.
C30_FirstPassLeavesOneOnDuty ==
    pc = "returned" =>
        \A d \in TieDyeRepairDays(prevRows, cfg.tdd) :
            \A s \in Range(TieDyeFirstPass(prevRows, pat, work, locked, d)) :
                \E i \in 1..Len(rows) :
                    /\ rows[i].day = d
                    /\ rows[i].job = FirstJob(TieDyeSwappable(prevRows, d), s)

====
